---- MODULE Spec2Model ----
(***************************************************************************)
(* A model of rene.py, the batch file renamer: the name incrementer        *)
(* (nextName), the extension splitter (greedyext), collision avoidance     *)
(* (avoid), the native filter/replacement/rules processor (native), the    *)
(* directory pass (procDir), the recursive traversal (procTree) and the    *)
(* two undo modes (undo, recUndo).                                         *)
(*                                                                         *)
(* A file name is a sequence of one-character strings, so that the model   *)
(* can index, slice and compare names the way the Python code does.        *)
(***************************************************************************)
EXTENDS Integers, Sequences, FiniteSets, TLC

VARIABLES
    Windows,    \* rene.py:143  os.name == 'nt': case-insensitive file system
    cmd,        \* the command line of the scenario (sys.argv, parsed)
    fs,         \* the directory tree: node -> [parent, name, isDir]
    acts,       \* the reneAct file of each directory node
    actr,       \* the reneActr file of the start directory
    rules,      \* rene.py:223  working rule lists, I rules are mutated
    newList,    \* rene.py:169  new names about to be created
    oldList,    \* rene.py:656  old names, parallel to newList
    dirlist,    \* rene.py:660  result of getdir() for the current pass
    pos,        \* index of the next entry of dirlist / of the next act
    pc,         \* position of the running invocation
    cwd,        \* current directory (a node)
    stack,      \* procTree recursion: frames [dir, list, idx]
    rVisit,     \* rene.py:198  paths of the directories visited
    curDepth,   \* rene.py:199
    ret,        \* return value of procDir / procTree
    aOpt,       \* rene.py:181  action option of the running invocation
    undoList,   \* recUndo: lines of reneActr still to be processed
    nInv,       \* number of invocations started so far
    hist        \* observations of the run: what the claims talk about

vars == <<Windows, cmd, fs, acts, actr, rules, newList, oldList, dirlist, pos,
          pc, cwd, stack, rVisit, curDepth, ret, aOpt, undoList, nInv, hist>>

-----------------------------------------------------------------------------
(* Characters and strings                                                  *)

Digits == <<"0","1","2","3","4","5","6","7","8","9">>
LowerAZ == <<"a","b","c","d","e","f","g","h","i","j","k","l","m",
             "n","o","p","q","r","s","t","u","v","w","x","y","z">>
UpperAZ == <<"A","B","C","D","E","F","G","H","I","J","K","L","M",
             "N","O","P","Q","R","S","T","U","V","W","X","Y","Z">>
\* The characters of the model in code point order (Python compares strings
\* by code point).
CodeOrder == <<"$", "-", ".">> \o Digits \o UpperAZ \o <<"_">> \o LowerAZ

Range(s) == {s[i] : i \in 1..Len(s)}
IndexOf(s, c) == CHOOSE i \in 1..Len(s) : s[i] = c

isdigit(c) == c \in Range(Digits)
islower(c) == c \in Range(LowerAZ)
isupper(c) == c \in Range(UpperAZ)
isalpha(c) == islower(c) \/ isupper(c)
ord(c) == IndexOf(CodeOrder, c)

lowerChr(c) == IF isupper(c) THEN LowerAZ[IndexOf(UpperAZ, c)] ELSE c
upperChr(c) == IF islower(c) THEN UpperAZ[IndexOf(LowerAZ, c)] ELSE c
lower(s) == [i \in 1..Len(s) |-> lowerChr(s[i])]
upper(s) == [i \in 1..Len(s) |-> upperChr(s[i])]

\* Python slices s[a:b] with 0-based a and b already clipped to 0..len.
Slice(s, a, b) == IF b <= a THEN << >> ELSE SubSeq(s, a + 1, b)
Last(s) == s[Len(s)]

\* s < t for Python strings (code point order, a proper prefix is smaller).
RECURSIVE StrLess(_, _)
StrLess(s, t) ==
    IF t = << >> THEN FALSE
    ELSE IF s = << >> THEN TRUE
    ELSE IF s[1] = t[1] THEN StrLess(Tail(s), Tail(t))
    ELSE ord(s[1]) < ord(t[1])

\* Values that stand for what Python produces in place of a string.
PyNone == <<"<None>">>
PyError == <<"<Exception>">>

\* int(sn) for a string of digits.
RECURSIVE ParseInt(_)
ParseInt(sn) ==
    IF sn = << >> THEN 0
    ELSE 10 * ParseInt(SubSeq(sn, 1, Len(sn) - 1)) + (IndexOf(Digits, Last(sn)) - 1)

\* '%d' % v for v >= 0.
RECURSIVE DecStr(_)
DecStr(v) == IF v < 10 THEN <<Digits[v + 1]>>
             ELSE DecStr(v \div 10) \o <<Digits[(v % 10) + 1]>>

Zeros(n) == [i \in 1..n |-> "0"]

\* '%0*d' % (w, v): zero padded to at least w characters, sign included.
FormatInt(w, v) ==
    IF v >= 0
    THEN LET d == DecStr(v) IN (IF Len(d) < w THEN Zeros(w - Len(d)) ELSE << >>) \o d
    ELSE LET d == DecStr(-v) IN
         <<"-">> \o (IF Len(d) + 1 < w THEN Zeros(w - 1 - Len(d)) ELSE << >>) \o d

-----------------------------------------------------------------------------
\* greedyext: root and all extensions, as matched by extpat: leading dots
\* and a run of non-dots, then everything from the next dot if at least one
\* character follows it.

\* Length of the longest prefix of s made of dots (dots = TRUE) or of
\* non-dots (dots = FALSE).
RECURSIVE RunLen(_, _)
RunLen(s, dots) ==
    IF s = << >> \/ ((s[1] = ".") # dots) THEN 0
    ELSE 1 + RunLen(Tail(s), dots)

greedyext(str) ==
    LET nd == RunLen(str, TRUE)
        nr == RunLen(Slice(str, nd, Len(str)), FALSE)
        rest == Slice(str, nd + nr, Len(str))
    IN  IF nr = 0 THEN << << >>, << >> >>   \* no match: ["", ""]
        ELSE << Slice(str, 0, nd + nr),
                IF Len(rest) >= 2 THEN rest ELSE << >> >>

-----------------------------------------------------------------------------
(* nextName: the file name incrementer                                     *)

\* Length of the run of digits at the end of s.
RECURSIVE DigitTail(_)
DigitTail(s) ==
    IF s = << >> \/ ~isdigit(Last(s)) THEN 0
    ELSE 1 + DigitTail(SubSeq(s, 1, Len(s) - 1))

nextName(str, step, offset) ==
    IF str = << >> THEN PyError            \* str[-1] raises IndexError
    ELSE IF isdigit(Last(str)) THEN
        LET sub == Slice(str, IF offset > Len(str) THEN Len(str) ELSE offset, Len(str))
            n == DigitTail(sub)
        IN  IF n = 0 THEN PyNone           \* re.search finds nothing
            ELSE LET sn == Slice(sub, Len(sub) - n, Len(sub))
                     v == ParseInt(sn) + step
                 IN  Slice(str, 0, Len(str) - n) \o FormatInt(Len(sn), v)
    ELSE IF isalpha(Last(str)) THEN
        LET alphabet == IF islower(Last(str)) THEN LowerAZ ELSE UpperAZ
            firstChr == alphabet[1]
            lastChr == alphabet[26]
            \* ord(c) - ord(firstChr) + step % 26, compared with 25
            nextidx == (IndexOf(alphabet, Last(str)) - 1) + (step % 26)
            head == SubSeq(str, 1, Len(str) - 1)
        IN  IF step < 0
            THEN head \o (IF nextidx > 25 THEN <<alphabet[nextidx - 26 + 1]>>
                          ELSE <<lastChr, alphabet[nextidx + 1]>>)
            ELSE head \o (IF nextidx > 25 THEN <<firstChr, alphabet[nextidx - 26 + 1]>>
                          ELSE <<alphabet[nextidx + 1]>>)
    ELSE str \o FormatInt(0, step)         \* '%d' % step appended

-----------------------------------------------------------------------------
(* The file system seen through os.path.exists, os.path.samefile,          *)
(* os.listdir and os.rename.  A node of fs has a parent directory (0 for   *)
(* the start directory), a name and a kind.  On Windows names are looked   *)
(* up without regard to case.                                              *)

\* A log file: missing, or its lines
NoFile == [present |-> FALSE, lines |-> << >>]
File(lines) == [present |-> TRUE, lines |-> lines]
RootDir == 1

Children(tree, d) == {n \in DOMAIN tree : tree[n].parent = d}

SameName(a, b) == IF Windows THEN lower(a) = lower(b) ELSE a = b

\* The nodes of directory d that the name nm designates.
Lookup(tree, d, nm) == {n \in Children(tree, d) : SameName(tree[n].name, nm)}

DotNames == {<<".">>, <<".", ".">>}

\* os.path.exists(nm) in directory d
exists(tree, d, nm) == nm \in DotNames \/ Lookup(tree, d, nm) # {}

\* os.path.samefile(a, b) in directory d, both existing
samefile(tree, d, a, b) ==
    /\ a \notin DotNames /\ b \notin DotNames
    /\ Lookup(tree, d, a) = Lookup(tree, d, b)

\* os.rename(a, b) in directory d.  Returns the new tree and whether the
\* call raised FileExistsError.  b is a name that does not designate any
\* entry, or designates the entry a itself (change of case on Windows); on
\* Windows an existing target raises FileExistsError, on Linux the target
\* entry is replaced.
rename(tree, d, a, b) ==
    LET src == Lookup(tree, d, a)
        dst == Lookup(tree, d, b)
    IN  IF src = {} THEN [tree |-> tree, ok |-> FALSE, raised |-> "FileNotFoundError"]
        ELSE LET n == CHOOSE x \in src : TRUE IN
             IF dst = {} \/ dst = src
             THEN [tree |-> [tree EXCEPT ![n].name = b], ok |-> TRUE, raised |-> ""]
             ELSE IF Windows
             THEN [tree |-> tree, ok |-> FALSE, raised |-> "FileExistsError"]
             ELSE LET m == CHOOSE x \in dst : TRUE IN
                  IF tree[m].isDir \/ tree[n].isDir
                  THEN [tree |-> tree, ok |-> FALSE, raised |-> "OSError"]
                  ELSE [tree |-> [x \in (DOMAIN tree) \ {m} |->
                                     IF x = n THEN [tree[x] EXCEPT !.name = b] ELSE tree[x]],
                        ok |-> TRUE, raised |-> ""]

-----------------------------------------------------------------------------
(* avoid: collision avoidance                                              *)

\* Variant: the batch is never consulted.
InList_never(nm, list) == FALSE

\* tname in newList
InList(nm, list) == \E i \in 1..Len(list) : list[i] = nm

\* The attempt ceiling of avoid: "if i > 9" in the loop over range(100).
CaLimit == 9

\* Variant: the ceiling is reached one iteration earlier.
RECURSIVE avoidLoop_early(_, _, _, _, _)
avoidLoop_early(i, root, ext, rootLen, tried) ==
    LET caPunLen == IF cmd.caPun # << >> /\ cmd.caPunPos = 2 THEN Len(cmd.caPun) ELSE 0
        root1 == IF caPunLen # 0 THEN root \o cmd.caPun ELSE root
        tname == root1 \o ext
        tried1 == Append(tried, tname)
    IN  IF ~InList(tname, newList) /\ ~exists(fs, cwd, tname)
        THEN [name |-> tname, tried |-> tried1, err |-> FALSE]
        ELSE IF i >= CaLimit
        THEN [name |-> << >>, tried |-> tried1, err |-> FALSE]
        ELSE LET root2 == IF caPunLen # 0 THEN Slice(root1, 0, Len(root1) - caPunLen)
                          ELSE root1
                 root3 == IF cmd.caMerge THEN nextName(root2, 1, 0)
                          ELSE IF i = 0 THEN root2 \o cmd.caStart
                          ELSE nextName(root2, 1, rootLen)
                 rootLen1 == IF ~cmd.caMerge /\ i = 0 THEN Len(root2) ELSE rootLen
             IN  IF root3 \in {PyNone, PyError}
                 THEN [name |-> << >>, tried |-> tried1, err |-> TRUE]
                 ELSE avoidLoop_early(i + 1, root3, ext, rootLen1, tried1)

\* Variant: the length of the root is not passed to nextName.
RECURSIVE avoidLoop_merged(_, _, _, _, _)
avoidLoop_merged(i, root, ext, rootLen, tried) ==
    LET caPunLen == IF cmd.caPun # << >> /\ cmd.caPunPos = 2 THEN Len(cmd.caPun) ELSE 0
        root1 == IF caPunLen # 0 THEN root \o cmd.caPun ELSE root
        tname == root1 \o ext
        tried1 == Append(tried, tname)
    IN  IF ~InList(tname, newList) /\ ~exists(fs, cwd, tname)
        THEN [name |-> tname, tried |-> tried1, err |-> FALSE]
        ELSE IF i > CaLimit
        THEN [name |-> << >>, tried |-> tried1, err |-> FALSE]
        ELSE LET root2 == IF caPunLen # 0 THEN Slice(root1, 0, Len(root1) - caPunLen)
                          ELSE root1
                 root3 == IF cmd.caMerge THEN nextName(root2, 1, 0)
                          ELSE IF i = 0 THEN root2 \o cmd.caStart
                          ELSE nextName(root2, 1, 0)
                 rootLen1 == IF ~cmd.caMerge /\ i = 0 THEN Len(root2) ELSE rootLen
             IN  IF root3 \in {PyNone, PyError}
                 THEN [name |-> << >>, tried |-> tried1, err |-> TRUE]
                 ELSE avoidLoop_merged(i + 1, root3, ext, rootLen1, tried1)

\* One iteration of the loop of avoid and all that follow it.  tried is the
\* sequence of the names tested so far.
RECURSIVE avoidLoop(_, _, _, _, _)
avoidLoop(i, root, ext, rootLen, tried) ==
    LET caPunLen == IF cmd.caPun # << >> /\ cmd.caPunPos = 2 THEN Len(cmd.caPun) ELSE 0
        root1 == IF caPunLen # 0 THEN root \o cmd.caPun ELSE root
        tname == root1 \o ext
        tried1 == Append(tried, tname)
    IN  IF ~InList(tname, newList) /\ ~exists(fs, cwd, tname)
        THEN [name |-> tname, tried |-> tried1, err |-> FALSE]
        ELSE IF i > CaLimit
        THEN [name |-> << >>, tried |-> tried1, err |-> FALSE]
        ELSE LET root2 == IF caPunLen # 0 THEN Slice(root1, 0, Len(root1) - caPunLen)
                          ELSE root1
                 root3 == IF cmd.caMerge THEN nextName(root2, 1, 0)
                          ELSE IF i = 0 THEN root2 \o cmd.caStart
                          ELSE nextName(root2, 1, rootLen)
                 rootLen1 == IF ~cmd.caMerge /\ i = 0 THEN Len(root2) ELSE rootLen
             IN  IF root3 \in {PyNone, PyError}
                 THEN [name |-> << >>, tried |-> tried1, err |-> TRUE]
                 ELSE avoidLoop(i + 1, root3, ext, rootLen1, tried1)

\* Variant: the first synthesized name is returned without a test.
avoid_untested(name) ==
    LET rootExt == greedyext(name)
        first == rootExt[1] \o rootExt[2]
        second == rootExt[1] \o cmd.caStart \o rootExt[2]
    IN  [name |-> second, tried |-> <<first, second>>, err |-> FALSE]

avoid(name) ==
    LET rootExt == greedyext(name)
        root == IF cmd.caPun # << >> /\ cmd.caPunPos = 0 THEN cmd.caPun \o rootExt[1]
                ELSE IF cmd.caPun # << >> /\ cmd.caPunPos = 1 THEN rootExt[1] \o cmd.caPun
                ELSE rootExt[1]
    IN  avoidLoop(0, root, rootExt[2], 0, << >>)

-----------------------------------------------------------------------------
\* The compiled filter.  A filter is a sequence of elements: a literal
\* character, or a group that captures a floater of min..max characters
\* (max = -1: any number), lazy for the any-width group of '*', greedy
\* otherwise, and without dots for the group that replaces a final '*.'.
\* Matching follows the order in which the re module tries the
\* alternatives, so the floaters are those of filter.match.

Lit(c) == [t |-> "lit", c |-> c, min |-> 1, max |-> 1, lazy |-> FALSE, nodot |-> FALSE]
\* '$' of the filter, copied as it is into the regular expression, where it
\* stands for the end of the name
Eol == [t |-> "eol", c |-> "$", min |-> 0, max |-> 0, lazy |-> FALSE, nodot |-> FALSE]
Grp(min, max, lazy, nodot) ==
    [t |-> "grp", c |-> "", min |-> min, max |-> max, lazy |-> lazy, nodot |-> nodot]

Min2(a, b) == IF a < b THEN a ELSE b
Max2(a, b) == IF a > b THEN a ELSE b

ChrEq(a, b) == IF cmd.filterCase THEN lowerChr(a) = lowerChr(b) ELSE a = b

NoMatch == [ok |-> FALSE, g |-> << >>]

RECURSIVE reMatch(_, _), reGroup(_, _, _, _)
reMatch(elems, s) ==
    IF elems = << >> THEN [ok |-> s = << >>, g |-> << >>]     \* '$'
    ELSE LET e == elems[1] IN
         IF e.t = "lit"
         THEN IF s # << >> /\ ChrEq(e.c, s[1]) THEN reMatch(Tail(elems), Tail(s))
              ELSE NoMatch
         ELSE IF e.t = "eol"
         THEN IF s = << >> THEN reMatch(Tail(elems), s) ELSE NoMatch
         ELSE LET avail == IF e.nodot THEN RunLen(s, FALSE) ELSE Len(s)
                  hi == IF e.max < 0 THEN avail ELSE Min2(e.max, avail)
              IN  IF e.min > hi THEN NoMatch
                  ELSE reGroup(elems, s, IF e.lazy THEN e.min ELSE hi, hi)

\* Try the group elems[1] with k characters, then with the next length in
\* the order of preference.
reGroup(elems, s, k, hi) ==
    LET e == elems[1]
        r == reMatch(Tail(elems), Slice(s, k, Len(s)))
    IN  IF r.ok THEN [ok |-> TRUE, g |-> <<Slice(s, 0, k)>> \o r.g]
        ELSE IF e.lazy THEN (IF k + 1 > hi THEN NoMatch ELSE reGroup(elems, s, k + 1, hi))
        ELSE (IF k - 1 < e.min THEN NoMatch ELSE reGroup(elems, s, k - 1, hi))

\* The part of v before its first '.': v.split('.')[0]
RECURSIVE BeforeDot(_)
BeforeDot(v) == IF v = << >> \/ v[1] = "." THEN << >> ELSE <<v[1]>> \o BeforeDot(Tail(v))

\* int(v) for the strings of the model: an optional sign and digits.
PyInt(v) ==
    LET neg == v # << >> /\ v[1] = "-"
        d == IF neg THEN Tail(v) ELSE v
    IN  IF d # << >> /\ \A i \in 1..Len(d) : isdigit(d[i])
        THEN [ok |-> TRUE, v |-> IF neg THEN -ParseInt(d) ELSE ParseInt(d)]
        ELSE [ok |-> FALSE, v |-> 0]

FX_NRANGE == 1
FX_ARANGE == 2

\* One semantic rule [idx, kind, lo, hi] of filArgx accepts the floaters g.
FilterRuleOk(rule, g) ==
    LET v == BeforeDot(g[rule.idx]) IN
    IF rule.kind = FX_ARANGE
    THEN ~(StrLess(v, rule.lo) \/ StrLess(rule.hi, v))
    ELSE LET n == PyInt(v) IN n.ok /\ ~(n.v < rule.lo \/ n.v > rule.hi)

-----------------------------------------------------------------------------
(* Rules and replacement                                                   *)

rvAdd == <<":">>
rvRule == <<"?">>
rvSkip == <<"/">>
rvCopy == <<"*">>
rvars == {rvAdd, rvRule, rvSkip, rvCopy}
consumers == {rvRule, rvSkip, rvCopy}

sliceRule == "S"
bumpRule == "B"
incRule == "I"
I_E == 1
I_R == 2

\* A Python value that is an int or a str (the start value of an I rule).
IntV(n) == [t |-> "int", v |-> n]
StrV(x) == [t |-> "str", v |-> x]

SRule(lead, trail, mode) == [id |-> sliceRule, lead |-> lead, trail |-> trail, mode |-> mode]
BRule(step, mode) == [id |-> bumpRule, step |-> step, mode |-> mode]

\* mode & bit for a bit that is a power of two
HasBit(mode, bit) == (mode \div bit) % 2 = 1

\* bitmapChars(str, 'ER')
bitmapChars(str) ==
    (IF \E i \in 1..Len(str) : str[i] = "E" THEN I_E ELSE 0)
    + (IF \E i \in 1..Len(str) : str[i] = "R" THEN I_R ELSE 0)

\* prepRule for an I rule whose parameters are already converted: mode is
\* the mode string of the argument, or the int 0 of the default rule when
\* the argument has none.  The hidden reload value is stored only when a
\* mode is given.
prepRuleI(start, step, width, mode) ==
    IF mode.t = "str"
    THEN [id |-> incRule, start |-> start, step |-> step, width |-> width,
          mode |-> bitmapChars(mode.v), reload |-> start]
    ELSE [id |-> incRule, start |-> start, step |-> step, width |-> width,
          mode |-> 0, reload |-> IntV(0)]

\* Python s[a:b] for any ints a and b
PyIndex(i, n) == IF i < 0 THEN Max2(i + n, 0) ELSE Min2(i, n)
PySlice(s, a, b) == Slice(s, PyIndex(a, Len(s)), PyIndex(b, Len(s)))

RECURSIVE Join(_)
Join(ss) == IF ss = << >> THEN << >> ELSE ss[1] \o Join(Tail(ss))

PyUnbound == <<"<unbound>">>

\* Variant: in mode 1 the slice runs to the end of the source.
sliceOut_toEnd(rule, src) ==
    IF rule.mode = 0
    THEN PySlice(src, 0, rule.lead) \o PySlice(src, -rule.trail, Len(src))
    ELSE PySlice(src, rule.lead, Len(src))

\* What the S rule adds to the new name: mode 0 src[:lead] + src[-trail:],
\* otherwise src[lead:trail]
sliceOut(rule, src) ==
    IF rule.mode = 0
    THEN PySlice(src, 0, rule.lead) \o PySlice(src, -rule.trail, Len(src))
    ELSE PySlice(src, rule.lead, rule.trail)

\* The class of the last character of a root for the B rule
bumpSel(root) == IF isalpha(Last(root)) THEN 1 ELSE IF isdigit(Last(root)) THEN 2 ELSE 4

\* Variant: the second tier of the mode drops the extension too.
bumpOut_dropAll(rule, src, rootExt) ==
    IF HasBit(rule.mode, bumpSel(rootExt[1]))
    THEN IF ~HasBit(rule.mode, bumpSel(rootExt[1]) * 16) THEN src ELSE << >>
    ELSE nextName(rootExt[1], rule.step, 0) \o rootExt[2]

\* What the B rule adds to the new name for a source with a root
bumpOut(rule, src, rootExt) ==
    IF HasBit(rule.mode, bumpSel(rootExt[1]))
    THEN IF ~HasBit(rule.mode, bumpSel(rootExt[1]) * 16) THEN src ELSE rootExt[2]
    ELSE nextName(rootExt[1], rule.step, 0) \o rootExt[2]

\* Variant: the last consumer takes one floater, like the others.
takeSrc_one(idx, floaters, floatIdx) == floaters[floatIdx + 1]

\* The source of the consumer at the place idx (from 1) of the replacement
takeSrc(idx, floaters, floatIdx) ==
    IF idx - 1 = cmd.maxConsumer /\ floatIdx < cmd.maxFloat
    THEN Join(SubSeq(floaters, floatIdx + 1, Len(floaters)))
    ELSE floaters[floatIdx + 1]

\* The number, from 1, of the rule variable at the place idx among the
\* rule variables of the replacement
ruleVarNo(idx) == Cardinality({i \in 1..idx : cmd.lrep[i] \in {rvRule, rvAdd}})

\* The body of the loop of native for the replacement token number idx
\* (from 1) and the rest of the loop.  st holds the local variables newName,
\* floatIdx, ridx and src, the rules, the inserted increments, and whether
\* an exception was raised; uses notes, for each rule that was applied, the
\* number of its variable and the number of the rule.
RECURSIVE nativeLoop(_, _, _)
nativeLoop(idx, floaters, st) ==
    IF idx > Len(cmd.lrep) \/ st.err THEN st
    ELSE
    LET rep == cmd.lrep[idx]
        next(s) == nativeLoop(idx + 1, floaters, s)
    IN
    IF rep \notin rvars THEN next([st EXCEPT !.newName = @ \o rep])
    ELSE IF rep \in consumers /\ st.floatIdx > cmd.maxFloat THEN next(st)
    ELSE
    LET src == IF rep \in consumers
               THEN takeSrc(idx, floaters, st.floatIdx)
               ELSE st.src
        st0 == IF rep \in consumers
               THEN [st EXCEPT !.src = src, !.floatIdx = @ + 1]
               ELSE st
        st1 == IF rep = rvCopy \/ (rep \in consumers /\ (rep = rvSkip \/ src = << >>))
               THEN st0
               ELSE [st0 EXCEPT !.uses = Append(@, <<ruleVarNo(idx), st.ridx + 1>>)]
    IN
    IF rep = rvCopy THEN next([st1 EXCEPT !.newName = @ \o src])
    ELSE IF rep \in consumers /\ (rep = rvSkip \/ src = << >>) THEN next(st1)
    ELSE
    LET rule == st1.rules[st1.ridx + 1] IN
    IF rule.id = sliceRule THEN
        IF src = PyUnbound THEN [st1 EXCEPT !.err = TRUE]
        ELSE LET warn == IF rule.mode = 0 THEN Len(src) < rule.lead + rule.trail
                         ELSE rule.lead >= rule.trail \/ rule.trail > Len(src)
             IN  next([st1 EXCEPT !.newName = @ \o sliceOut(rule, src),
                                  !.ridx = @ + 1, !.warn = @ \/ warn])
    ELSE IF rule.id = bumpRule THEN
        IF src = PyUnbound THEN [st1 EXCEPT !.err = TRUE]
        ELSE LET rootExt == greedyext(src) IN
             IF rootExt[1] = << >> THEN [st1 EXCEPT !.err = TRUE]  \* IndexError
             ELSE
             next([st1 EXCEPT !.newName = @ \o bumpOut(rule, src, rootExt),
                              !.ridx = @ + 1])
    ELSE \* incRule
        LET incName == IF rule.start.t = "int" THEN FormatInt(rule.width, rule.start.v)
                       ELSE rule.start.v
            start1 == IF rule.start.t = "int" THEN IntV(rule.start.v + rule.step)
                      ELSE StrV(nextName(rule.start.v, rule.step, 0))
            rootExt == greedyext(st1.newName)
            name1 == IF HasBit(rule.mode, I_E) THEN st1.newName \o incName
                     ELSE rootExt[1] \o incName \o rootExt[2]
        IN  next([st1 EXCEPT !.newName = name1, !.ridx = @ + 1,
                             !.rules[st1.ridx + 1].start = start1,
                             !.emits = Append(@, <<st1.ridx, incName>>)])

\* native(old) after filter.match(old) has given m: the new name ("" when
\* old does not pass the filter), the rules after the call, the increments
\* inserted and the exception flag.
nativeMatched(old, m) ==
    IF ~m.ok \/ (cmd.noDotName /\ old[1] = ".")
       \/ \E i \in 1..Len(cmd.filArgx) : ~FilterRuleOk(cmd.filArgx[i], m.g)
    THEN [newName |-> << >>, rules |-> rules, emits |-> << >>,
          warn |-> FALSE, err |-> FALSE, uses |-> << >>]
    ELSE IF \E i \in 1..Len(cmd.oOpt) : cmd.oOpt[i] \notin -Len(m.g)..(Len(m.g) - 1)
    THEN [newName |-> << >>, rules |-> rules, emits |-> << >>,
          warn |-> FALSE, err |-> TRUE, uses |-> << >>]                       \* IndexError
    ELSE nativeLoop(1, IF Len(cmd.oOpt) = 0 THEN m.g
                       ELSE [i \in 1..Len(cmd.oOpt) |->
                                m.g[PyIndex(cmd.oOpt[i], Len(m.g)) + 1]],
                    [newName |-> << >>, floatIdx |-> 0, ridx |-> 0,
                     src |-> PyUnbound, rules |-> rules, emits |-> << >>,
                     warn |-> FALSE, err |-> FALSE, uses |-> << >>])

native(old) == nativeMatched(old, reMatch(cmd.filter, old))

-----------------------------------------------------------------------------
(* The command line: what main leaves in the globals before the first      *)
(* directory is processed.                                                 *)

A_ASK == 0
A_REN == 1
A_SHOW == 2

\* The filter argument without extension clauses becomes the compiled
\* filter, the noDotName flag and the index of the last floater.
RECURSIVE filterElems(_)
filterElems(filArg) ==
    IF filArg = << >> THEN << >>
    ELSE LET c == filArg[1] IN
         <<IF c = "*" THEN Grp(0, -1, TRUE, FALSE)
           ELSE IF c = "?" THEN Grp(1, 1, FALSE, FALSE)
           ELSE IF c = "$" THEN Eol
           ELSE Lit(c)>> \o filterElems(Tail(filArg))

compileFilter(arg) ==
    LET n == Len(arg)
        rootOnly == n >= 2 /\ arg[n - 1] = "*" /\ arg[n] = "."
        filArg == IF rootOnly THEN SubSeq(arg, 1, n - 2)
                  ELSE IF arg[n] = "." THEN SubSeq(arg, 1, n - 1)
                  ELSE arg
        elems == filterElems(filArg) \o
                 (IF rootOnly THEN <<Grp(0, -1, FALSE, TRUE)>> ELSE << >>)
    IN  [filter |-> elems,
         noDotName |-> n >= 2 /\ arg[1] = "*" /\ arg[2] = ".",
         maxFloat |-> Cardinality({i \in 1..Len(elems) : elems[i].t = "grp"}) - 1]

\* re.split on the replacement variables, empty strings removed
RECURSIVE splitRep(_, _)
splitRep(aRep, lit) ==
    IF aRep = << >> THEN (IF lit = << >> THEN << >> ELSE <<lit>>)
    ELSE IF <<aRep[1]>> \in rvars
         THEN (IF lit = << >> THEN << >> ELSE <<lit>>) \o << <<aRep[1]>> >>
              \o splitRep(Tail(aRep), << >>)
         ELSE splitRep(Tail(aRep), Append(lit, aRep[1]))

\* Index (from 0) of the last consumer of lrep, -1 standing for "unset".
maxConsumerOf(lrep) ==
    LET cs == {i \in 1..Len(lrep) : lrep[i] \in consumers}
    IN  IF cs = {} THEN -1 ELSE (CHOOSE i \in cs : \A j \in cs : j <= i) - 1

\* Options as main leaves them when the command line gives none.
DefaultOpts ==
    [sOpt |-> << >>, fOpt |-> << >>, opdirs |-> 0, filterCase |-> TRUE,
     oOpt |-> << >>, filArgx |-> << >>,
     caStop |-> FALSE, caContinue |-> FALSE, caPun |-> << >>, caPunPos |-> 1,
     caMerge |-> FALSE, caStart |-> <<"0">>,
     rDepth |-> 0, rInc |-> FALSE, rDirs |-> << >>]

\* rene.py filter replacement rules options
NativeCmd(filArg, aRep, ruleList, opts) ==
    LET f == compileFilter(filArg)
        lrep == splitRep(aRep, << >>)
    IN  [filter |-> f.filter, noDotName |-> f.noDotName, maxFloat |-> f.maxFloat,
         lrep |-> lrep, maxConsumer |-> maxConsumerOf(lrep),
         rules |-> ruleList,
         irules |-> {i \in 1..Len(ruleList) : ruleList[i].id = incRule},
         sOpt |-> opts.sOpt, fOpt |-> opts.fOpt, opdirs |-> opts.opdirs,
         filterCase |-> opts.filterCase, oOpt |-> opts.oOpt, filArgx |-> opts.filArgx,
         caStop |-> opts.caStop, caContinue |-> opts.caContinue,
         caPun |-> opts.caPun,
         caPunPos |-> IF opts.caMerge /\ opts.caPunPos = 1 THEN 2 ELSE opts.caPunPos,
         caMerge |-> opts.caMerge, caStart |-> opts.caStart,
         rDepth |-> opts.rDepth, rInc |-> opts.rInc, rDirs |-> opts.rDirs]

\* sortdir after main: the simple sort is switched on when an I rule is
\* used and the system is not Windows; option -TS sets another variable.
sortdir == IF ~Windows /\ cmd.irules # {} THEN 1 ELSE 0

-----------------------------------------------------------------------------
(* Directory listing, paths, name patterns                                 *)

RECURSIVE Perms(_)
Perms(S) == IF S = {} THEN {<< >>}
            ELSE UNION {{<<x>> \o q : q \in Perms(S \ {x})} : x \in S}

RECURSIVE SortNames(_)
SortNames(S) ==
    IF S = {} THEN << >>
    ELSE LET m == CHOOSE x \in S : \A y \in S \ {x} : StrLess(x, y)
         IN  <<m>> \o SortNames(S \ {m})

NamesIn(tree, d) == {tree[n].name : n \in Children(tree, d)}

\* getdir(): the lists that it can return in directory d.  os.listdir
\* gives the names in arbitrary order; sortdir = 1 sorts them.  The log
\* files reneAct and reneActr are not entries of the model's tree: no name
\* of the model is equal to theirs and procDir skips them (renePat).
getdir(tree, d) ==
    IF sortdir = 0 THEN Perms(NamesIn(tree, d))
    ELSE {SortNames(NamesIn(tree, d))}

\* os.getcwd(): the names from the start directory down to d
RECURSIVE Path(_, _)
Path(tree, d) == IF d = RootDir THEN << >>
                 ELSE Append(Path(tree, tree[d].parent), tree[d].name)

\* os.chdir(path) for a path written by procTree: the directory reached,
\* or 0 if a component does not exist.
RECURSIVE Resolve(_, _, _)
Resolve(tree, d, path) ==
    IF path = << >> THEN d
    ELSE LET ns == {n \in Lookup(tree, d, path[1]) : tree[n].isDir}
         IN  IF ns = {} THEN 0
             ELSE Resolve(tree, CHOOSE n \in ns : TRUE, Tail(path))

\* fnmatch.fnmatch(name, pat) for patterns made of literals, '*' and '?';
\* os.path.normcase makes it case-insensitive on Windows.
RECURSIVE fnmatchcase(_, _)
fnmatchcase(name, pat) ==
    IF pat = << >> THEN name = << >>
    ELSE IF pat[1] = "*"
         THEN fnmatchcase(name, Tail(pat))
              \/ (name # << >> /\ fnmatchcase(Tail(name), pat))
    ELSE /\ name # << >>
         /\ (pat[1] = "?" \/ pat[1] = name[1])
         /\ fnmatchcase(Tail(name), Tail(pat))

fnmatch(name, pat) ==
    IF Windows THEN fnmatchcase(lower(name), lower(pat)) ELSE fnmatchcase(name, pat)

\* renePat.match(old): rene(.py|t.py|Act) at the start of the name, '.'
\* standing for any character.
renePat(old) ==
    /\ Len(old) >= 7
    /\ SubSeq(old, 1, 4) = <<"r", "e", "n", "e">>
    /\ \/ SubSeq(old, 6, 7) = <<"p", "y">>
       \/ (Len(old) >= 8 /\ old[5] = "t" /\ SubSeq(old, 7, 8) = <<"p", "y">>)
       \/ SubSeq(old, 5, 7) = <<"A", "c", "t">>

\* str.replace(a, b) for a one-character a
RECURSIVE replace(_, _, _)
replace(str, a, b) ==
    IF str = << >> THEN << >>
    ELSE (IF str[1] = a THEN b ELSE <<str[1]>>) \o replace(Tail(str), a, b)

\* The substitutions of option -S applied in order
RECURSIVE substitute(_, _)
substitute(name, sOpt) ==
    IF sOpt = << >> THEN name
    ELSE LET sop == sOpt[1]
             n1 == IF upper(sop) = <<"U">> THEN upper(name)
                   ELSE IF upper(sop) = <<"L">> THEN lower(name)
                   ELSE IF Len(sop) = 2
                        THEN replace(name, sop[1],
                                     IF sop[1] # sop[2] THEN <<sop[2]>> ELSE << >>)
                   ELSE name
         IN  substitute(n1, Tail(sOpt))

-----------------------------------------------------------------------------
(* The reneAct file: one line old>new per rename; undo reads it back       *)

\* Variant: the new name is written first.
actLine_swapped(old, new) == new \o <<">">> \o old

\* actFile.write(old + '>' + new + '\n')
actLine(old, new) == old \o <<">">> \o new

\* line.split('>')
RECURSIVE split(_, _, _)
split(line, sep, cur) ==
    IF line = << >> THEN <<cur>>
    ELSE IF line[1] = sep THEN <<cur>> \o split(Tail(line), sep, << >>)
    ELSE split(Tail(line), sep, Append(cur, line[1]))

\* The loop of undo over the lines of reneAct in directory d
RECURSIVE undoLines(_, _, _)
undoLines(tree, d, lines) ==
    IF lines = << >> THEN tree
    ELSE LET act == split(lines[1], ">", << >>)
             t1 == IF ~exists(tree, d, act[2]) THEN tree
                   ELSE IF exists(tree, d, act[1]) THEN tree
                   ELSE rename(tree, d, act[2], act[1]).tree
         IN  undoLines(t1, d, Tail(lines))

\* undo() in directory d
undo(tree, d) == IF ~acts[d].present THEN tree ELSE undoLines(tree, d, acts[d].lines)

-----------------------------------------------------------------------------
(* Observations.  hist records what happened, for the properties; the      *)
(* program does not read it.                                               *)

NoAvoid == [called |-> FALSE, name |-> << >>, tried |-> << >>, result |-> << >>,
            batch |-> << >>, tree |-> << >>, dir |-> 0]

\* hist at the start of an invocation: what is known of earlier
\* invocations is kept, the rest is cleared.
histStart(h, op) ==
    [h EXCEPT !.op = op, !.prevOp = h.op, !.ran = FALSE, !.prevRan = h.ran,
              !.avoid = NoAvoid, !.emits = << >>,
              !.events = << >>, !.done = [d \in DOMAIN h.done |-> << >>],
              !.crashed = FALSE, !.undone = << >>, !.accepted = << >>,
              !.failed = << >>, !.warned = FALSE]

\* What a process leaves behind when it exits: the files.  Its variables
\* are set back to their initial values.
Exit ==
    /\ pc' = "idle"
    /\ rules' = << >> /\ newList' = << >> /\ oldList' = << >>
    /\ dirlist' = << >> /\ pos' = 0 /\ cwd' = RootDir /\ stack' = << >>
    /\ rVisit' = << >> /\ curDepth' = 0 /\ ret' = 0 /\ aOpt' = A_ASK
    /\ undoList' = << >>

\* The observations that concern a running process only
\* prevPass keeps the pairs of a pass of a run without -R that has gone
\* through the whole directory and has renamed nothing.
histExit(h) ==
    [h EXCEPT !.avoid = NoAvoid, !.emits = << >>, !.events = << >>,
              !.accepted = << >>, !.failed = << >>, !.answer = "",
              !.prevPass = IF pc = "ret" /\ ret = 0 /\ ~h.ran /\ h.op = "run"
                              /\ cmd.rDepth = 0
                           THEN [ok |-> TRUE, pairs |-> Range(h.accepted)]
                           ELSE [ok |-> FALSE, pairs |-> {}]]

-----------------------------------------------------------------------------
(* A renaming invocation: main, procDir, procTree                          *)

\* Number of invocations of one behaviour
MaxInv == 2

\* rene.py filter replacement rules options, with one of the -A options
StartRun ==
    /\ pc = "idle" /\ nInv < MaxInv
    /\ nInv' = nInv + 1
    /\ \E a \in {A_ASK, A_REN, A_SHOW} : aOpt' = a
    /\ rules' = cmd.rules
    /\ newList' = << >> /\ oldList' = << >> /\ dirlist' = << >> /\ pos' = 0
    /\ cwd' = RootDir /\ stack' = << >> /\ rVisit' = << >> /\ curDepth' = 0
    /\ ret' = 0 /\ undoList' = << >>
    /\ pc' = IF cmd.rDepth = 0 THEN "procDir" ELSE "procTree"
    /\ hist' = [histStart(hist, "run") EXCEPT
                   !.visiting = << >>, !.enum = [d \in DOMAIN hist.enum |-> << >>]]
    /\ UNCHANGED <<Windows, cmd, fs, acts, actr>>

\* Variant: no rule is reloaded.
ProcTreeEnter_noReload ==
    /\ pc = "procTree"
    /\ rVisit' = Append(rVisit, Path(fs, cwd))
    /\ rules' = rules
    /\ pc' = "procDir"
    /\ hist' = [hist EXCEPT !.visiting = Append(@, cwd)]
    /\ UNCHANGED <<Windows, cmd, fs, acts, actr, newList, oldList, dirlist, pos,
                   cwd, stack, curDepth, ret, aOpt, undoList, nInv>>

\* Variant: every I rule is reloaded, whatever its mode.
ProcTreeEnter_reloadAll ==
    /\ pc = "procTree"
    /\ rVisit' = Append(rVisit, Path(fs, cwd))
    /\ rules' = [i \in 1..Len(rules) |->
                    IF i \in cmd.irules
                    THEN [rules[i] EXCEPT !.start = rules[i].reload]
                    ELSE rules[i]]
    /\ pc' = "procDir"
    /\ hist' = [hist EXCEPT !.visiting = Append(@, cwd)]
    /\ UNCHANGED <<Windows, cmd, fs, acts, actr, newList, oldList, dirlist, pos,
                   cwd, stack, curDepth, ret, aOpt, undoList, nInv>>

\* procTree, up to the call of procDir
ProcTreeEnter ==
    /\ pc = "procTree"
    /\ rVisit' = Append(rVisit, Path(fs, cwd))
    /\ rules' = [i \in 1..Len(rules) |->
                    IF i \in cmd.irules /\ HasBit(rules[i].mode, I_R)
                    THEN [rules[i] EXCEPT !.start = rules[i].reload]
                    ELSE rules[i]]
    /\ pc' = "procDir"
    /\ hist' = [hist EXCEPT !.visiting = Append(@, cwd)]
    /\ UNCHANGED <<Windows, cmd, fs, acts, actr, newList, oldList, dirlist, pos,
                   cwd, stack, curDepth, ret, aOpt, undoList, nInv>>

\* procDir, up to the loop over the directory
ProcDirStart ==
    /\ pc = "procDir"
    /\ newList' = << >> /\ oldList' = << >>
    /\ dirlist' \in getdir(fs, cwd)
    /\ pos' = 1
    /\ pc' = "loop"
    /\ hist' = [hist EXCEPT !.avoid = NoAvoid, !.events = << >>,
                            !.accepted = << >>, !.failed = << >>,
                            !.answer = "", !.before = [fs |-> fs, acts |-> acts]]
    /\ UNCHANGED <<Windows, cmd, fs, acts, actr, rules, cwd, stack, rVisit,
                   curDepth, ret, aOpt, undoList, nInv>>

\* The outcome of the body of the loop of procDir for one entry: what =
\* "skip" (continue), "accept" (the pair is appended), "stop" (return 1) or
\* "raise" (an exception leaves procDir); nat is what the computation of
\* the new name has left, av what avoid has done.
NoNative == [newName |-> << >>, rules |-> rules, emits |-> << >>,
             warn |-> FALSE, err |-> FALSE, uses |-> << >>]

entryResult(what, newName, nat, av, failed) ==
    [what |-> what, newName |-> newName, rules |-> nat.rules, emits |-> nat.emits,
     avoid |-> av, warn |-> nat.warn, failed |-> failed]

\* Variant: a failure of avoid never stops procDir.
procAvoided_noStop(nat, av) ==
    LET obs == [called |-> TRUE, name |-> nat.newName, tried |-> av.tried,
                result |-> av.name, batch |-> newList, tree |-> fs, dir |-> cwd]
    IN  IF av.err THEN entryResult("raise", << >>, nat, obs, FALSE)
        ELSE IF av.name = << >>
        THEN entryResult("skip", << >>, nat, obs, TRUE)
        ELSE entryResult("accept", av.name, nat, obs, FALSE)

\* The entry after avoid has returned av for the new name of nat
procAvoided(nat, av) ==
    LET obs == [called |-> TRUE, name |-> nat.newName, tried |-> av.tried,
                result |-> av.name, batch |-> newList, tree |-> fs, dir |-> cwd]
    IN  IF av.err THEN entryResult("raise", << >>, nat, obs, FALSE)
        ELSE IF av.name = << >>
        THEN entryResult(IF cmd.caStop THEN "stop" ELSE "skip", << >>, nat, obs, TRUE)
        ELSE entryResult("accept", av.name, nat, obs, FALSE)

\* The entry old with its new name: the section Collision Avoidance.
\* onDisk: the new name exists and is not the file old itself.
procCollision(old, nat, onDisk) ==
    IF onDisk /\ (cmd.caStop \/ cmd.caContinue)
    THEN entryResult(IF cmd.caStop THEN "stop" ELSE "skip", << >>, nat, NoAvoid, TRUE)
    ELSE IF onDisk \/ InList(nat.newName, newList)
    THEN procAvoided(nat, avoid(nat.newName))
    ELSE entryResult("accept", nat.newName, nat, NoAvoid, FALSE)

\* The entry old after the computation nat of its new name
procNamed(old, nat) ==
    IF nat.err THEN entryResult("raise", << >>, nat, NoAvoid, FALSE)
    ELSE IF Len(cmd.sOpt) = 0 /\ nat.newName = << >>
    THEN entryResult("skip", << >>, nat, NoAvoid, FALSE)
    ELSE IF nat.newName = old THEN entryResult("skip", << >>, nat, NoAvoid, FALSE)
    ELSE procCollision(old, nat,
                       exists(fs, cwd, nat.newName)
                       /\ ~samefile(fs, cwd, old, nat.newName))

\* Whether procDir passes over the entry node before any name is computed:
\* its kind against opdirs, the program's own files, the patterns of -F.
passedOver(old, isDir) ==
    \/ ~isDir /\ (cmd.opdirs > 1 \/ renePat(old))
    \/ isDir /\ cmd.opdirs = 0
    \/ \E i \in 1..Len(cmd.fOpt) : fnmatch(old, cmd.fOpt[i])

\* The body of the loop of procDir for the entry old
procEntry(old) ==
    IF passedOver(old, fs[CHOOSE n \in Lookup(fs, cwd, old) : TRUE].isDir)
    THEN entryResult("skip", << >>, NoNative, NoAvoid, FALSE)
    ELSE procNamed(old, IF Len(cmd.sOpt) # 0
                        THEN [NoNative EXCEPT !.newName = substitute(old, cmd.sOpt)]
                        ELSE native(old))

\* One pass of the loop of procDir
ProcDirLoop ==
    /\ pc = "loop" /\ pos <= Len(dirlist)
    /\ \E r \in {procEntry(dirlist[pos])} :
           /\ rules' = r.rules
           /\ hist' = [hist EXCEPT !.avoid = r.avoid, !.emits = @ \o r.emits,
                                   !.crashed = (r.what = "raise"),
                                   !.warned = @ \/ r.warn,
                                   !.accepted = IF r.what = "accept"
                                                THEN Append(@, <<dirlist[pos], r.newName>>)
                                                ELSE @,
                                   !.failed = IF r.failed THEN Append(@, dirlist[pos])
                                              ELSE @]
           /\ IF r.what = "accept"
              THEN /\ oldList' = Append(oldList, dirlist[pos])
                   /\ newList' = Append(newList, r.newName)
              ELSE UNCHANGED <<oldList, newList>>
           /\ IF r.what = "raise" THEN pc' = "raise" /\ UNCHANGED <<pos, ret>>
              ELSE IF r.what = "stop" THEN pc' = "ret" /\ ret' = 1 /\ UNCHANGED pos
              ELSE pc' = "loop" /\ pos' = pos + 1 /\ UNCHANGED ret
    /\ UNCHANGED <<Windows, cmd, fs, acts, actr, dirlist, cwd, stack, rVisit,
                   curDepth, aOpt, undoList, nInv>>

\* What procDir does after the loop: "none" (nothing to rename), "show"
\* (-AS), "no" (the answer to the question is not Y) or "go".
decision(yes) ==
    IF Len(oldList) = 0 THEN "none"
    ELSE IF aOpt = A_SHOW THEN "show"
    ELSE IF aOpt = A_ASK /\ ~yes THEN "no"
    ELSE "go"

\* Variant: reneAct is opened for writing before the mode is looked at.
ProcDirDecide_openFirst ==
    /\ pc = "loop" /\ pos > Len(dirlist)
    /\ \E yes \in BOOLEAN :
         /\ hist' = [hist EXCEPT !.answer = decision(yes), !.pre = fs,
                                 !.preDir = cwd, !.ran = TRUE]
         /\ acts' = [acts EXCEPT ![cwd] = File(<< >>)]
         /\ IF decision(yes) # "go"
            THEN pc' = "ret" /\ ret' = 0 /\ UNCHANGED pos
            ELSE pc' = "exec" /\ pos' = 1 /\ UNCHANGED ret
    /\ UNCHANGED <<Windows, cmd, fs, actr, rules, newList, oldList, dirlist, cwd,
                   stack, rVisit, curDepth, aOpt, undoList, nInv>>

\* procDir after the loop: nothing to rename, show only, or the question
\* and its answer; then reneAct is opened for writing.
ProcDirDecide ==
    /\ pc = "loop" /\ pos > Len(dirlist)
    /\ \E yes \in BOOLEAN :
         IF decision(yes) # "go"
         THEN /\ pc' = "ret" /\ ret' = 0
              /\ hist' = [hist EXCEPT !.answer = decision(yes)]
              /\ UNCHANGED <<acts, pos>>
         ELSE /\ pc' = "exec" /\ pos' = 1
              /\ acts' = [acts EXCEPT ![cwd] = File(<< >>)]
              /\ hist' = [hist EXCEPT !.answer = "go", !.pre = fs,
                                      !.preDir = cwd, !.ran = TRUE]
              /\ UNCHANGED ret
    /\ UNCHANGED <<Windows, cmd, fs, actr, rules, newList, oldList, dirlist, cwd,
                   stack, rVisit, curDepth, aOpt, undoList, nInv>>

\* actFile.write(old>new)
ExecWrite ==
    /\ pc = "exec" /\ pos <= Len(oldList)
    /\ acts' = [acts EXCEPT ![cwd].lines = Append(@, actLine(oldList[pos], newList[pos]))]
    /\ hist' = [hist EXCEPT !.events = Append(@, <<"write", pos>>)]
    /\ pc' = "rename"
    /\ UNCHANGED <<Windows, cmd, fs, actr, rules, newList, oldList, dirlist, pos,
                   cwd, stack, rVisit, curDepth, ret, aOpt, undoList, nInv>>

\* os.rename(old, new); FileExistsError is caught
ExecRename ==
    /\ pc = "rename"
    /\ LET r == rename(fs, cwd, oldList[pos], newList[pos]) IN
       /\ fs' = r.tree
       /\ hist' = [hist EXCEPT !.events = Append(@, <<"rename", pos>>),
                               !.done[cwd] = IF r.ok
                                             THEN Append(@, <<oldList[pos], newList[pos]>>)
                                             ELSE @,
                               !.crashed = ~r.ok /\ r.raised # "FileExistsError"]
       /\ IF ~r.ok /\ r.raised # "FileExistsError"
          THEN pc' = "raise" /\ UNCHANGED pos
          ELSE pc' = "exec" /\ pos' = pos + 1
    /\ UNCHANGED <<Windows, cmd, acts, actr, rules, newList, oldList, dirlist,
                   cwd, stack, rVisit, curDepth, ret, aOpt, undoList, nInv>>

\* The end of the with block: return(0)
ExecDone ==
    /\ pc = "exec" /\ pos > Len(oldList)
    /\ pc' = "ret" /\ ret' = 0
    /\ UNCHANGED <<Windows, cmd, fs, acts, actr, rules, newList, oldList, dirlist,
                   pos, cwd, stack, rVisit, curDepth, aOpt, undoList, nInv, hist>>

\* exit(procDir()) of a run without -R
MainExit ==
    /\ pc = "ret" /\ cmd.rDepth = 0
    /\ Exit
    /\ hist' = histExit(hist)
    /\ UNCHANGED <<Windows, cmd, fs, acts, actr, nInv>>

\* An uncaught exception ends the process
Raise ==
    /\ pc = "raise"
    /\ Exit
    /\ hist' = histExit(hist)
    /\ UNCHANGED <<Windows, cmd, fs, acts, actr, nInv>>

-----------------------------------------------------------------------------
(* procTree after procDir: the scan of the subdirectories                  *)

\* procDir has returned to procTree
TreeAfterDir ==
    /\ pc = "ret" /\ cmd.rDepth # 0
    /\ IF ret # 0
       THEN pc' = "treeret" /\ ret' = 1 /\ UNCHANGED <<curDepth, stack, hist>>
       ELSE IF curDepth >= cmd.rDepth
       THEN pc' = "treeret" /\ ret' = 0 /\ UNCHANGED <<curDepth, stack, hist>>
       ELSE /\ curDepth' = curDepth + 1
            /\ \E l \in getdir(fs, cwd) :
                 /\ stack' = Append(stack, [dir |-> cwd, list |-> l, idx |-> 1])
                 /\ hist' = [hist EXCEPT !.enum[cwd] = l]
            /\ pc' = "scan" /\ ret' = 0
    /\ UNCHANGED <<Windows, cmd, fs, acts, actr, rules, newList, oldList, dirlist,
                   pos, cwd, rVisit, aOpt, undoList, nInv>>

\* Variant: a directory that matches the list is always entered.
doit_include(fn) ==
    IF Len(cmd.rDirs) = 0 THEN TRUE
    ELSE IF \E i \in 1..Len(cmd.rDirs) : fnmatch(fn, cmd.rDirs[i]) THEN TRUE
    ELSE ~cmd.rInc

\* Whether procTree enters the subdirectory fn
doit(fn) ==
    IF Len(cmd.rDirs) = 0 THEN TRUE
    ELSE IF \E i \in 1..Len(cmd.rDirs) : fnmatch(fn, cmd.rDirs[i]) THEN cmd.rInc
    ELSE ~cmd.rInc

\* One pass of the loop of procTree over dirlist, or its end
TreeScan ==
    /\ pc = "scan"
    /\ LET top == stack[Len(stack)] IN
       IF top.idx > Len(top.list)
       THEN /\ curDepth' = curDepth - 1
            /\ stack' = SubSeq(stack, 1, Len(stack) - 1)
            /\ pc' = "treeret"
            /\ UNCHANGED cwd
       ELSE LET fn == top.list[top.idx]
                node == CHOOSE n \in Lookup(fs, cwd, fn) : TRUE
            IN  /\ stack' = [stack EXCEPT ![Len(stack)].idx = @ + 1]
                /\ UNCHANGED curDepth
                /\ IF fs[node].isDir /\ doit(fn)
                   THEN cwd' = node /\ pc' = "procTree"
                   ELSE UNCHANGED <<cwd, pc>>
    /\ UNCHANGED <<Windows, cmd, fs, acts, actr, rules, newList, oldList, dirlist,
                   pos, rVisit, ret, aOpt, undoList, nInv, hist>>

\* A call of procTree returns: to the loop of its caller, or to main, which
\* writes reneActr and exits.
TreeReturn ==
    /\ pc = "treeret"
    /\ IF stack = << >>
       THEN /\ actr' = File(rVisit)
            /\ Exit
       ELSE /\ cwd' = fs[cwd].parent
            /\ IF ret # 0
               THEN /\ curDepth' = curDepth - 1
                    /\ stack' = SubSeq(stack, 1, Len(stack) - 1)
                    /\ pc' = "treeret"
               ELSE pc' = "scan" /\ UNCHANGED <<curDepth, stack>>
            /\ UNCHANGED <<actr, rules, newList, oldList, dirlist, pos, rVisit,
                           ret, aOpt, undoList>>
    /\ hist' = IF stack = << >>
               THEN [histExit(hist) EXCEPT !.visited = hist.visiting]
               ELSE hist
    /\ UNCHANGED <<Windows, cmd, fs, acts, nInv>>

-----------------------------------------------------------------------------
(* Undo: rene.py -U and rene.py -UR                                        *)

\* rene.py -U in the start directory
Undo ==
    /\ pc = "idle" /\ nInv < MaxInv
    /\ nInv' = nInv + 1
    /\ fs' = undo(fs, RootDir)
    /\ hist' = [histStart(hist, "undo") EXCEPT !.undone = <<RootDir>>]
    /\ UNCHANGED <<Windows, cmd, acts, actr, rules, newList, oldList, dirlist,
                   pos, pc, cwd, stack, rVisit, curDepth, ret, aOpt, undoList>>

\* Variant: the lines are taken first to last.
reverse_same(q) == q

\* rene.py -UR: reneActr is read and its lines are taken last to first
reverse(q) == [i \in 1..Len(q) |-> q[Len(q) + 1 - i]]

RecUndoStart ==
    /\ pc = "idle" /\ nInv < MaxInv
    /\ nInv' = nInv + 1
    /\ hist' = histStart(hist, "recundo")
    /\ IF ~actr.present
       THEN UNCHANGED <<pc, undoList>>
       ELSE pc' = "recundo" /\ undoList' = reverse(actr.lines)
    /\ UNCHANGED <<Windows, cmd, fs, acts, actr, rules, newList, oldList, dirlist,
                   pos, cwd, stack, rVisit, curDepth, ret, aOpt>>

\* One pass of the loop of recUndo: chdir and undo
RecUndoStep ==
    /\ pc = "recundo" /\ undoList # << >>
    /\ LET d == Resolve(fs, RootDir, undoList[1]) IN
       IF d = 0
       THEN /\ pc' = "raise"
            /\ hist' = [hist EXCEPT !.crashed = TRUE]
            /\ UNCHANGED <<fs, cwd, undoList>>
       ELSE /\ cwd' = d
            /\ fs' = undo(fs, d)
            /\ undoList' = Tail(undoList)
            /\ hist' = [hist EXCEPT !.undone = Append(@, d)]
            /\ UNCHANGED pc
    /\ UNCHANGED <<Windows, cmd, acts, actr, rules, newList, oldList, dirlist,
                   pos, stack, rVisit, curDepth, ret, aOpt, nInv>>

RecUndoDone ==
    /\ pc = "recundo" /\ undoList = << >>
    /\ Exit
    /\ UNCHANGED <<Windows, cmd, fs, acts, actr, nInv, hist>>

-----------------------------------------------------------------------------
(* Scenarios: a directory tree and a command line                          *)

Dir(parent, name) == [parent |-> parent, name |-> name, isDir |-> TRUE]
Fil(parent, name) == [parent |-> parent, name |-> name, isDir |-> FALSE]
Top == Dir(0, << >>)

\* Collision avoidance options of -X
CaOpts ==
    { DefaultOpts,
      [DefaultOpts EXCEPT !.caMerge = TRUE],
      [DefaultOpts EXCEPT !.caStart = <<"A">>],
      [DefaultOpts EXCEPT !.caStart = <<"Z">>],
      [DefaultOpts EXCEPT !.caStart = <<"9">>],
      [DefaultOpts EXCEPT !.caStart = <<"a", ".">>],
      [DefaultOpts EXCEPT !.caPun = <<"_">>, !.caPunPos = 0],
      [DefaultOpts EXCEPT !.caPun = <<"_">>, !.caPunPos = 1],
      [DefaultOpts EXCEPT !.caPun = <<"_">>, !.caPunPos = 2],
      [DefaultOpts EXCEPT !.caPun = <<"_">>, !.caMerge = TRUE],
      [DefaultOpts EXCEPT !.caStop = TRUE],
      [DefaultOpts EXCEPT !.caContinue = TRUE] }

\* my-* his-* over files of which some new names exist already
\* (renet.py, test28 to test35)
ScCollide ==
    { [tree |-> <<Top, Fil(1, <<"m", "1", ".", "p">>), Fil(1, <<"m", "2", ".", "p">>),
                  Fil(1, <<"h", "1", ".", "p">>)>>,
       cmd |-> NativeCmd(<<"m", "*">>, <<"h", "*">>, << >>, o),
       linux |-> FALSE] : o \in CaOpts }

\* Every file gets the same new name
ScSame ==
    { [tree |-> <<Top, Fil(1, <<"a">>), Fil(1, <<"b">>), Fil(1, <<"c">>)>>,
       cmd |-> NativeCmd(<<"*">>, <<"x">>, << >>, o),
       linux |-> FALSE] : o \in CaOpts }

\* A change of case: the filter ignores case, the replacement is literal
ScCase ==
    { [tree |-> <<Top, Fil(1, <<"A", "1">>), Fil(1, <<"a", "2">>), Fil(1, <<"b">>)>>,
       cmd |-> NativeCmd(<<"a", "*">>, <<"a", "*">>, << >>, DefaultOpts),
       linux |-> FALSE] }

\* Option -S over files and directories, recursive (renet.py, test76)
ScSub ==
    { [tree |-> <<Top, Fil(1, <<"G", "_">>), Dir(1, <<"X", "_">>),
                  Fil(3, <<"F", "_">>), Dir(3, <<"Y", "_">>), Fil(5, <<"H", "_">>)>>,
       cmd |-> [NativeCmd(<<"*">>, <<"*">>, << >>,
                          [DefaultOpts EXCEPT !.sOpt = <<<<"L">>, <<"_", "-">>>>,
                                              !.opdirs = 1, !.rDepth = d])
                EXCEPT !.filter = << >>],
       linux |-> FALSE] : d \in {0, 1000} }

\* Two I rules, one reloaded in each directory (renet.py, test78, test79)
ScInsert ==
    { [tree |-> <<Top, Fil(1, <<"f", "1">>), Dir(1, <<"X">>),
                  Fil(3, <<"f", "1">>), Dir(3, <<"Y">>), Fil(5, <<"f", "2">>)>>,
       cmd |-> NativeCmd(<<"f", "*">>, <<"f", "*", ":", ":">>,
                         <<prepRuleI(StrV(<<"A">>), 1, 1, StrV(<<"R">>)),
                           prepRuleI(IntV(5), 10, 2, IntV(0))>>,
                         [DefaultOpts EXCEPT !.rDepth = d]),
       linux |-> FALSE] : d \in {1, 1000} }

\* A counter given to two files of one directory
ScCount ==
    { [tree |-> <<Top, Fil(1, <<"f", "1">>), Fil(1, <<"f", "2">>)>>,
       cmd |-> NativeCmd(<<"f", "*">>, <<"g", ":">>,
                         <<prepRuleI(IntV(1), 1, 1, IntV(0))>>, DefaultOpts),
       linux |-> FALSE] }

\* Two files whose new names differ in the case of a letter only
ScFold ==
    { [tree |-> <<Top, Fil(1, <<"a", "1">>), Fil(1, <<"A", "2">>)>>,
       cmd |-> NativeCmd(<<"?", "*">>, <<"*", "/">>, << >>, DefaultOpts),
       linux |-> FALSE] }

\* A floater without root given to the Bump rule
ScBump ==
    { [tree |-> <<Top, Fil(1, <<"a", "1">>), Fil(1, <<"a", ".">>)>>,
       cmd |-> NativeCmd(<<"a", "*">>, <<"b", "?">>, <<BRule(1, 0)>>, DefaultOpts),
       linux |-> TRUE] }

\* A new name that consists of a dot: it is the name of the directory itself
ScDots ==
    { [tree |-> <<Top, Fil(1, <<"a", ".">>), Fil(1, <<"b">>)>>,
       cmd |-> NativeCmd(<<"a", "*">>, <<"*">>, << >>, o),
       linux |-> TRUE] : o \in {DefaultOpts, [DefaultOpts EXCEPT !.caStop = TRUE]} }

\* Number of names of the sequence of avoid that exist already
MaxOcc == 12

\* Many new names exist already (renet.py, test29 to test34): the files
\* m1 and m2 become h0 and h1, and k names of the sequence that avoid
\* tries from h0 exist: h0 h1 h2 .. with -XM, h0 h00 h01 .. by default,
\* h0 h09 h010 h011 .. with -X9.
ExhaustSchemes == {"merge", "0", "9"}

Occupied(scheme, j) ==
    IF scheme = "merge" THEN <<"h">> \o DecStr(j - 1)
    ELSE IF j = 1 THEN <<"h", "0">>
    ELSE <<"h", "0">> \o DecStr((IF scheme = "9" THEN 9 ELSE 0) + j - 2)

ScExhaust ==
    { [tree |-> <<Top, Fil(1, <<"m", "1">>), Fil(1, <<"m", "2">>)>> \o
                [j \in 1..k |-> Fil(1, Occupied(scheme, j))],
       cmd |-> NativeCmd(<<"m", "*">>, <<"h", "/", ":">>,
                         <<prepRuleI(IntV(0), 1, 1, IntV(0))>>,
                         [DefaultOpts EXCEPT !.caMerge = (scheme = "merge"),
                                             !.caStart = IF scheme = "9" THEN <<"9">>
                                                         ELSE <<"0">>]),
       linux |-> TRUE] : k \in 0..MaxOcc, scheme \in ExhaustSchemes }

\* Two files get the same new name h0 and the names that avoid tries for
\* the second are taken (renet.py, test34, with the collision inside the
\* batch): with and without -XS, with and without -R.  The subdirectory s
\* holds a file to rename.
ScStop ==
    { [tree |-> <<Top, Fil(1, <<"m", "1">>), Fil(1, <<"m", "2">>), Dir(1, <<"s">>),
                  Fil(4, <<"m", "1">>)>> \o
                [j \in 1..(CaLimit + 1) |-> Fil(1, Occupied("0", j + 1))],
       cmd |-> NativeCmd(<<"m", "*">>, <<"h", "/", ":">>,
                         <<prepRuleI(IntV(0), 0, 1, IntV(0))>>,
                         [DefaultOpts EXCEPT !.caStop = stop, !.rDepth = d]),
       linux |-> TRUE] : stop \in BOOLEAN, d \in {0, 1000} }

\* A tree of directories a (with c inside) and b, a file f in each, and the
\* options -R with a depth, a list of names and + or - (rene.py f* g* -R...)
ScTree ==
    { [tree |-> <<Top, Dir(1, <<"a">>), Dir(1, <<"b">>), Dir(2, <<"c">>),
                  Fil(2, <<"f">>), Fil(3, <<"f">>), Fil(4, <<"f">>)>>,
       cmd |-> NativeCmd(<<"f", "*">>, <<"g", "*">>, << >>,
                         [DefaultOpts EXCEPT !.rDepth = d, !.rDirs = l, !.rInc = inc]),
       linux |-> FALSE] :
      d \in {1, 1000}, inc \in BOOLEAN,
      l \in {<< >>, <<<<"A">>>>, <<<<"b">>, <<"?">>>>, <<<<"c">>>>} }

Scenarios == ScCollide \cup ScSame \cup ScCase \cup ScSub \cup ScInsert
             \cup ScBump \cup ScDots \cup ScExhaust \cup ScStop
             \cup ScTree \cup ScCount \cup ScFold

\* The names of a directory are distinct for the file system
ValidTree(tree, win) ==
    \A m, n \in DOMAIN tree :
        (m # n /\ tree[m].parent = tree[n].parent)
        => (IF win THEN lower(tree[m].name) # lower(tree[n].name)
            ELSE tree[m].name # tree[n].name)

Dirs(tree) == {n \in DOMAIN tree : tree[n].isDir}

\* Nothing has been observed yet
histInit(tree) ==
    [op |-> "", prevOp |-> "", avoid |-> NoAvoid, emits |-> << >>,
     events |-> << >>, done |-> [d \in Dirs(tree) |-> << >>],
     crashed |-> FALSE, undone |-> << >>, accepted |-> << >>,
     failed |-> << >>, warned |-> FALSE, pre |-> tree,
     preDir |-> RootDir, visiting |-> << >>, visited |-> << >>,
     ran |-> FALSE, prevRan |-> FALSE, answer |-> "",
     enum |-> [d \in Dirs(tree) |-> << >>],
     prevPass |-> [ok |-> FALSE, pairs |-> {}],
     before |-> [fs |-> tree, acts |-> [d \in Dirs(tree) |-> NoFile]]]

Init ==
    /\ \E sc \in Scenarios, w \in BOOLEAN :
         /\ sc.linux => ~w
         /\ ValidTree(sc.tree, w)
         /\ Windows = w /\ cmd = sc.cmd /\ fs = sc.tree
         /\ acts = [d \in Dirs(sc.tree) |-> NoFile]
         /\ hist = histInit(sc.tree)
    /\ actr = NoFile
    /\ rules = << >> /\ newList = << >> /\ oldList = << >> /\ dirlist = << >>
    /\ pos = 0 /\ pc = "idle" /\ cwd = RootDir /\ stack = << >> /\ rVisit = << >>
    /\ curDepth = 0 /\ ret = 0 /\ aOpt = A_ASK /\ undoList = << >> /\ nInv = 0

Next ==
    \/ StartRun \/ ProcTreeEnter \/ ProcDirStart \/ ProcDirLoop \/ ProcDirDecide
    \/ ExecWrite \/ ExecRename \/ ExecDone \/ MainExit \/ Raise
    \/ TreeAfterDir \/ TreeScan \/ TreeReturn
    \/ Undo \/ RecUndoStart \/ RecUndoStep \/ RecUndoDone

Spec == Init /\ [][Next]_vars

-----------------------------------------------------------------------------
(* Properties                                                              *)

\* C1: within one directory pass the batch newList holds no name twice and
\* no name of an entry on disk other than the file the name is given to;
\* the batch is empty when a directory pass starts.
C1_BatchDistinct ==
    /\ \A i, j \in 1..Len(newList) : i # j => newList[i] # newList[j]
    /\ pc = "loop" =>
          \A i \in 1..Len(newList) :
              exists(fs, cwd, newList[i]) => samefile(fs, cwd, oldList[i], newList[i])
    /\ (pc = "loop" /\ pos = 1) => newList = << >>

\* A pass has accepted two names, the last one after a collision with the batch
C1_Witness ==
    /\ pc = "loop" /\ Len(newList) >= 2
    /\ hist.avoid.called /\ InList(hist.avoid.name, hist.avoid.batch)
    /\ hist.avoid.result = newList[Len(newList)]

\* C2: the name that avoid returns, when it is not the empty string, is the
\* last name it tested, is not in the batch and not on disk, and every name
\* tested before it collided.
C2_AvoidFirstFree ==
    (hist.avoid.called /\ hist.avoid.result # << >>) =>
        LET a == hist.avoid
            n == Len(a.tried)
            collides(t) == (\E i \in 1..Len(a.batch) : a.batch[i] = t)
                           \/ exists(a.tree, a.dir, t)
        IN  /\ n >= 1 /\ a.result = a.tried[n]
            /\ ~collides(a.result)
            /\ \A k \in 1..(n - 1) : collides(a.tried[k])

\* avoid has returned the fourth name it tested
C2_Witness ==
    hist.avoid.called /\ hist.avoid.result # << >> /\ Len(hist.avoid.tried) = 4

C5_ReloadAtDirStart ==
    (cmd.rDepth # 0 /\ pc = "loop" /\ pos = 1) =>
        \A i \in cmd.irules :
            HasBit(cmd.rules[i].mode, I_R) => rules[i].start = cmd.rules[i].start

\* The third directory starts after the rule has been used
C5_Witness ==
    /\ cmd.rDepth # 0 /\ pc = "loop" /\ pos = 1 /\ Len(hist.visiting) = 3
    /\ \E i \in cmd.irules :
          /\ HasBit(cmd.rules[i].mode, I_R)
          /\ \E n \in 1..Len(hist.emits) : hist.emits[n][1] = i - 1

\* C6: the n-th number that a numeric I rule without mode R inserts in one
\* invocation is start + (n - 1) * step (n from 1), across directories.
C6_NoReloadContinues ==
    \A i \in cmd.irules :
        (cmd.rules[i].start.t = "int" /\ ~HasBit(cmd.rules[i].mode, I_R)) =>
            LET es == SelectSeq(hist.emits, LAMBDA e : e[1] = i - 1)
            IN  \A n \in 1..Len(es) :
                    /\ PyInt(es[n][2]).ok
                    /\ PyInt(es[n][2]).v = cmd.rules[i].start.v + (n - 1) * cmd.rules[i].step

\* A rule without mode R has inserted in three directories next to a rule
\* that was reloaded
C6_Witness ==
    /\ Len(hist.visiting) = 3
    /\ \E i, j \in cmd.irules :
          /\ cmd.rules[i].start.t = "int" /\ ~HasBit(cmd.rules[i].mode, I_R)
          /\ HasBit(cmd.rules[j].mode, I_R)
          /\ Len(SelectSeq(hist.emits, LAMBDA e : e[1] = i - 1)) = 3

\* C7: when a run without -R has executed a batch and undo follows in the
\* same directory, the tree is the one before the batch.
C7_UndoRestores ==
    (pc = "idle" /\ hist.op = "undo" /\ hist.prevOp = "run" /\ hist.prevRan
        /\ cmd.rDepth = 0 /\ ~hist.crashed)
    => fs = hist.pre

\* C8: after a renaming invocation, the reneAct file of each directory
\* holds the renames this invocation made there, and no others.
C8_ActRecordsLastRun ==
    (pc = "idle" /\ hist.op = "run" /\ ~hist.crashed) =>
        \A d \in DOMAIN acts :
            (IF acts[d].present THEN acts[d].lines ELSE << >>)
            = [i \in 1..Len(hist.done[d]) |->
                  hist.done[d][i][1] \o <<">">> \o hist.done[d][i][2]]

\* C9: recursive undo after a recursive run visits the directories of that
\* run last to first, so no directory is visited after its parent.
C9_RecUndoReverse ==
    (pc = "idle" /\ hist.op = "recundo" /\ hist.prevOp = "run" /\ actr.present) =>
        LET n == Len(hist.visited) IN
        /\ ~hist.crashed
        /\ Len(hist.undone) = n
        /\ \A i \in 1..n : hist.undone[i] = hist.visited[n + 1 - i]
        /\ \A i, j \in 1..n : i < j => fs[hist.undone[j]].parent # hist.undone[i]

\* Recursive undo has gone through three directories of which some were renamed
C9_Witness ==
    /\ pc = "idle" /\ hist.op = "recundo" /\ hist.prevOp = "run" /\ hist.prevRan
    /\ Len(hist.undone) = 3

\* C10 as stated: every line of the action record is written before any
\* rename of the directory is attempted.
C10_AllLinesBeforeRenames ==
    \A i, j \in 1..Len(hist.events) :
        (hist.events[i][1] = "rename" /\ hist.events[j][1] = "write") => j < i

\* C10: the action record holds one line old>new per accepted rename, in the
\* order of acceptance, and each line is written before the rename that it
\* records is attempted.
C10_LineBeforeItsRename ==
    (pc \in {"exec", "rename"} \/ (pc = "ret" /\ hist.events # << >>)) =>
        LET ev == hist.events
            w == Cardinality({j \in 1..Len(ev) : ev[j][1] = "write"})
        IN  /\ acts[cwd].present
            /\ Len(acts[cwd].lines) = w
            /\ w <= Len(hist.accepted)
            /\ \A i \in 1..w :
                  acts[cwd].lines[i] = hist.accepted[i][1] \o <<">">> \o hist.accepted[i][2]
            /\ \A j \in 1..Len(ev) :
                  ev[j][1] = "rename" =>
                      \E k \in 1..(j - 1) : ev[k] = <<"write", ev[j][2]>>
            /\ pc = "ret" => w = Len(hist.accepted)

\* A batch of two renames is done and recorded
C10_Witness ==
    /\ pc = "ret" /\ Len(hist.events) = 4
    /\ acts[cwd].present /\ Len(acts[cwd].lines) = 2

-----------------------------------------------------------------------------
\* C11: when procDir returns after show-only mode (-AS) or after an answer
\* to the question that is not yes, no rename has been made and reneAct has
\* not been written: the tree and the action records are those procDir
\* found when it was entered.
C11_ShowAndNoLeaveAlone ==
    (pc = "ret" /\ hist.answer \in {"show", "no"})
        => /\ fs = hist.before.fs
           /\ acts = hist.before.acts
           /\ hist.events = << >>

\* procDir has returned with names to rename, after the answer no
C11_Witness ==
    /\ pc = "ret" /\ hist.answer = "no"
    /\ Len(oldList) > 0 /\ fs = hist.before.fs

-----------------------------------------------------------------------------
\* C13: when avoid returns the failure signal for a candidate, the candidate
\* is not put in the batch and, without the stop policy, the loop goes on
\* with the next entry and the candidates accepted after it are renamed;
\* with the stop policy (-XS) procDir returns 1 at once, nothing of that
\* directory is renamed or written, and a recursive traversal enters no
\* further directory.
C13_AfterFailure(old) ==
    \E i \in 1..Len(hist.failed) :
        IndexOf(dirlist, hist.failed[i]) < IndexOf(dirlist, old)

C13_FailureSkipsOrStops ==
    /\ [][(pc = "loop" /\ pos <= Len(dirlist) /\ hist'.avoid.called
             /\ hist'.avoid.result = << >> /\ ~hist'.crashed)
           => /\ oldList' = oldList /\ newList' = newList /\ fs' = fs
              /\ IF cmd.caStop THEN pc' = "ret" /\ ret' = 1
                 ELSE pc' = "loop" /\ pos' = pos + 1 /\ ret' = 0]_vars
    /\ [](ret # 0 => /\ pc \in {"ret", "treeret"}
                     /\ hist.events = << >>
                     /\ fs = hist.before.fs /\ acts = hist.before.acts)
    /\ []((~cmd.caStop /\ pc = "ret" /\ hist.answer = "go")
            => \A i \in 1..Len(hist.accepted) :
                  C13_AfterFailure(hist.accepted[i][1])
                      => hist.accepted[i] \in Range(hist.done[cwd]))

\* Without the stop policy: avoid has failed for one candidate and a later
\* candidate of the directory has been renamed.
C13_Witness ==
    /\ ~cmd.caStop /\ pc = "ret" /\ hist.answer = "go"
    /\ \E i \in 1..Len(hist.accepted) :
          /\ C13_AfterFailure(hist.accepted[i][1])
          /\ hist.accepted[i] \in Range(hist.done[cwd])
    /\ \E i \in 1..Len(hist.failed) : exists(fs, cwd, hist.failed[i])

\* With the stop policy: avoid has failed in the start directory of a
\* recursive run, the run is over and the subdirectory was never entered.
C13_WitnessStop ==
    /\ cmd.caStop /\ cmd.rDepth # 0 /\ pc = "treeret" /\ stack = << >> /\ ret = 1
    /\ hist.avoid.called /\ hist.avoid.result = << >>
    /\ Len(hist.visiting) = 1 /\ fs = hist.before.fs

-----------------------------------------------------------------------------
\* The number of directories above the node n of the tree
RECURSIVE Depth(_, _)
Depth(tree, n) == IF tree[n].parent = 0 THEN 0 ELSE 1 + Depth(tree, tree[n].parent)

\* Whether the name nm passes the list of -R: with no list every name
\* passes, with + the names that match an element, with - the others.
C14_Passes(nm) ==
    \/ cmd.rDirs = << >>
    \/ cmd.rInc = (\E i \in 1..Len(cmd.rDirs) : fnmatch(nm, cmd.rDirs[i]))

\* The directories have been visited parents first and brothers in the
\* order of the enumeration of their parent; a subdirectory has been
\* visited exactly when its parent has, its depth is within the limit and
\* its name passes the list.
C14_Traversal ==
    LET seen == Range(hist.visiting) IN
    /\ \A n \in seen \ {RootDir} :
          /\ fs[n].parent \in seen
          /\ IndexOf(hist.visiting, fs[n].parent) < IndexOf(hist.visiting, n)
    /\ \A n, m \in seen \ {RootDir} :
          (fs[n].parent = fs[m].parent
           /\ IndexOf(hist.enum[fs[n].parent], fs[n].name)
                  < IndexOf(hist.enum[fs[m].parent], fs[m].name))
              => IndexOf(hist.visiting, n) < IndexOf(hist.visiting, m)
    /\ \A n \in Dirs(fs) \ {RootDir} :
          n \in seen <=> /\ fs[n].parent \in seen
                         /\ Depth(fs, n) <= cmd.rDepth
                         /\ C14_Passes(fs[n].name)

\* C14 as stated: at the end of every recursive traversal the directories
\* have been visited parents first, brothers in enumeration order, and a
\* subdirectory exactly when its parent was visited, its depth does not
\* exceed the limit and its name passes the inclusion/exclusion list.
C14_VisitedIff ==
    (pc = "treeret" /\ stack = << >>) => C14_Traversal

\* C14 amended: the same at the end of a traversal that no directory has
\* stopped (procDir has returned 0 everywhere).
C14_VisitedIffNotStopped ==
    (pc = "treeret" /\ stack = << >> /\ ret = 0) => C14_Traversal

\* A traversal with a list of names has ended: one subdirectory has been
\* visited and another has not.
C14_Witness ==
    /\ pc = "treeret" /\ stack = << >> /\ ret = 0 /\ cmd.rDirs # << >>
    /\ \E n, m \in Dirs(fs) \ {RootDir} :
          /\ n \in Range(hist.visiting) /\ m \notin Range(hist.visiting)
          /\ fs[m].parent \in Range(hist.visiting)
          /\ Depth(fs, m) <= cmd.rDepth

-----------------------------------------------------------------------------
(* The functions nextName and native on their own: one call with arguments *)
(* drawn from bounded sets.  stack holds the frame of the call, ret what   *)
(* the call returns.                                                       *)

\* Length of the longest string given to a function
MaxLen == 3
\* Largest count of characters of a Slice rule
MaxCut == 2

\* The strings of 1 to n characters of the set chars
RECURSIVE Strings(_, _)
Strings(chars, n) ==
    IF n = 0 THEN {}
    ELSE {<<c>> : c \in chars}
         \cup {Append(t, c) : t \in Strings(chars, n - 1), c \in chars}

\* nextName(str, step, offset): letters at both ends of the alphabets,
\* digits with and without carry, punctuation; steps below, within and
\* beyond one turn of the alphabet; every offset up to the length.
FnSteps == {-27, -26, -1, 0, 1, 2, 26, 27}

nextNameCalls ==
    { [fn |-> "nextName", str |-> str, step |-> step, offset |-> offset] :
      str \in Strings({"a", "z", "B", "Z", "0", "9", "-"}, MaxLen) \cup {<< >>},
      step \in FnSteps, offset \in 0..MaxLen }

\* rene.py * ? rule: the whole name is the floater given to one S or B rule.
\* The modes of B select the classes letter (0x01), digit (0x02) and other
\* (0x04) and, for each, drop (0x10, 0x20, 0x40) in place of copy.
FnRules ==
    {SRule(lead, trail, mode) : lead \in 0..MaxCut, trail \in 0..MaxCut, mode \in {0, 1}}
    \cup {BRule(step, mode) : step \in {-1, 1, 26}, mode \in {0, 1, 2, 4, 17, 34, 68, 119}}

nativeCalls ==
    { [fn |-> "native", old |-> old, rule |-> rule] :
      old \in Strings({"a", "Z", "9", "-", "."}, MaxLen), rule \in FnRules }

\* native(old) for a filter of two floaters or of one, and replacements of
\* literals, copies, discards and rule variables with the rules that main
\* accepts for them
WalkRules ==
    { [rep |-> r, rules |-> << >>] :
      r \in {<<"/", "x", "*">>, <<"*", "-", "*">>, <<"*">>, <<"/">>, <<"x">>, <<"*", "/", "*">>, <<"/", "*", "/">>, <<"x", "*", "y", "/">>, <<"*", "*", "*">>, <<"/", "/", "x">>} }
    \cup { [rep |-> <<"?", "-", "?">>, rules |-> rl] :
           rl \in {<<SRule(1, 1, 0), BRule(1, 0)>>, <<BRule(1, 0), SRule(1, 1, 0)>>} }
    \cup { [rep |-> <<"?", ":">>, rules |-> <<r, prepRuleI(IntV(5), 1, 1, IntV(0))>>] :
           r \in {SRule(1, 1, 0), BRule(1, 0)} }
    \cup { [rep |-> <<":", "?">>, rules |-> <<prepRuleI(IntV(5), 1, 1, IntV(0)), r>>] :
           r \in {SRule(1, 1, 0), BRule(1, 0)} }
    \cup { [rep |-> <<"?", "?", ":">>,
            rules |-> <<SRule(1, 1, 0), BRule(1, 0), prepRuleI(IntV(5), 1, 1, IntV(0))>>] }

walkCalls ==
    { [fn |-> "walk", old |-> old, filter |-> f, rep |-> w.rep, rules |-> w.rules] :
      old \in Strings({"a", "1", "_"}, MaxLen),
      f \in {<<"*", "_", "*">>, <<"*">>, <<"a", "*">>, <<"?", "*", "_", "*">>}, w \in WalkRules }

\* renet.py, test1: 08*-0* /hap* on 08493357-001.tif
patentCall ==
    [fn |-> "walk", old |-> <<"0", "8", "4", "9", "3", "3", "5", "7", "-", "0", "0", "1", ".", "t", "i", "f">>,
     filter |-> <<"0", "8", "*", "-", "0", "*">>, rep |-> <<"/", "h", "a", "p", "*">>, rules |-> << >>]

\* greedyext(str) for the names of dots and letters, and two longer ones
greedyextCalls ==
    { [fn |-> "greedyext", str |-> str] :
      str \in Strings({"a", "b", "."}, MaxLen)
               \cup {<< >>, <<"a", ".", "b", ".", "c">>, <<".", "a", ".", "b">>} }

InitFn ==
    /\ stack \in {<<f>> : f \in nextNameCalls \cup nativeCalls \cup walkCalls
                                   \cup {patentCall} \cup greedyextCalls}
    /\ cmd = IF stack[1].fn = "walk"
             THEN NativeCmd(stack[1].filter, stack[1].rep, stack[1].rules, DefaultOpts)
             ELSE NativeCmd(<<"*">>, <<"?">>,
                            IF stack[1].fn = "native" THEN <<stack[1].rule>> ELSE << >>,
                            DefaultOpts)
    /\ rules = cmd.rules
    /\ Windows = FALSE /\ fs = <<Top>> /\ acts = [d \in {RootDir} |-> NoFile]
    /\ actr = NoFile /\ newList = << >> /\ oldList = << >> /\ dirlist = << >>
    /\ pos = 0 /\ pc = "call" /\ cwd = RootDir /\ rVisit = << >>
    /\ curDepth = 0 /\ ret = << >> /\ aOpt = A_ASK /\ undoList = << >> /\ nInv = 0
    /\ hist = [op |-> stack[1].fn]

\* nextName(str, step, offset)
FnNextName ==
    /\ pc = "call" /\ stack[1].fn = "nextName"
    /\ ret' = nextName(stack[1].str, stack[1].step, stack[1].offset)
    /\ pc' = "done"
    /\ UNCHANGED <<Windows, cmd, fs, acts, actr, rules, newList, oldList, dirlist,
                   pos, cwd, stack, rVisit, curDepth, aOpt, undoList, nInv, hist>>

\* native(old)
FnNative ==
    /\ pc = "call" /\ stack[1].fn \in {"native", "walk"}
    /\ \E r \in {native(stack[1].old)} : ret' = r /\ rules' = r.rules
    /\ pc' = "done"
    /\ UNCHANGED <<Windows, cmd, fs, acts, actr, newList, oldList, dirlist,
                   pos, cwd, stack, rVisit, curDepth, aOpt, undoList, nInv, hist>>

\* greedyext(str)
FnGreedyext ==
    /\ pc = "call" /\ stack[1].fn = "greedyext"
    /\ ret' = greedyext(stack[1].str)
    /\ pc' = "done"
    /\ UNCHANGED <<Windows, cmd, fs, acts, actr, rules, newList, oldList, dirlist,
                   pos, cwd, stack, rVisit, curDepth, aOpt, undoList, nInv, hist>>

NextFn == FnNextName \/ FnNative \/ FnGreedyext

SpecFn == InitFn /\ [][NextFn]_vars

\* A call of nextName has returned
nextNameDone == pc = "done" /\ hist.op = "nextName"

\* A call of native with one rule of the kind id has returned
nativeDone(id) == pc = "done" /\ hist.op = "native" /\ stack[1].rule.id = id

-----------------------------------------------------------------------------
\* C15: nextName on a string that ends in a letter changes the last
\* character only: it becomes the letter (step mod 26) places further in
\* its alphabet, taken as a circle, and when the sum of its place and step
\* leaves the alphabet one letter is added before it: the first letter
\* when the sum is beyond the end (Z+1 = AA), the last letter when it is
\* before the start (A-1 = ZZ).
C15_LetterStep ==
    (nextNameDone /\ stack[1].str # << >> /\ isalpha(Last(stack[1].str)))
        => LET str == stack[1].str
               alphabet == IF islower(Last(str)) THEN LowerAZ ELSE UpperAZ
               sum == (IndexOf(alphabet, Last(str)) - 1) + stack[1].step
               letter == alphabet[(sum % 26) + 1]
               head == SubSeq(str, 1, Len(str) - 1)
           IN  ret = head \o (IF sum > 25 THEN <<alphabet[1], letter>>
                              ELSE IF sum < 0 THEN <<alphabet[26], letter>>
                              ELSE <<letter>>)

\* C16: nextName on a string that ends in a digit returns the string with
\* the longest run of digits at its end, looked for in the characters from
\* offset on, replaced by its value plus step, padded with zeros to the
\* width of the run at least; the characters before the run are unchanged.
C16_DigitStep ==
    (nextNameDone /\ stack[1].str # << >> /\ isdigit(Last(stack[1].str)))
        => LET str == stack[1].str
               n == DigitTail(Slice(str, stack[1].offset, Len(str)))
               run == SubSeq(str, Len(str) - n + 1, Len(str))
           IN  /\ ret \notin {PyNone, PyError}
               /\ ret = SubSeq(str, 1, Len(str) - n)
                          \o FormatInt(n, ParseInt(run) + stack[1].step)

\* C17: the Slice rule in mode 0 adds to the new name the first lead
\* characters of its source followed by the last trail characters of its
\* source, for every lead >= 0 and trail >= 0.
C17_SliceLeadTrail ==
    (nativeDone(sliceRule) /\ stack[1].rule.mode = 0)
        => LET src == stack[1].old
               lead == Min2(stack[1].rule.lead, Len(src))
               trail == Min2(stack[1].rule.trail, Len(src))
           IN  ret.newName = SubSeq(src, 1, lead)
                                 \o SubSeq(src, Len(src) - trail + 1, Len(src))

\* What C18 says of the Bump rule for a source with the root and the
\* extension rootExt, dropped being what is left of a dropped source
C18_Bump(src, rootExt, rule, dropped) ==
    LET c == Last(rootExt[1])
        bit == IF isalpha(c) THEN 1 ELSE IF isdigit(c) THEN 2 ELSE 4
    IN  IF (rule.mode \div bit) % 2 = 1
        THEN IF (rule.mode \div (16 * bit)) % 2 = 1 THEN dropped ELSE src
        ELSE nextName(rootExt[1], rule.step, 0) \o rootExt[2]

-----------------------------------------------------------------------------
(* main: from the strings of the command line to the globals that procDir  *)
(* and native use.  The command lines of the model are native commands:   *)
(* filter, replacement, rules and the options -A, -F and -O.              *)

\* parm.split('/'), without the empty strings unless emptyok
parmList(parm, emptyok) ==
    SelectSeq(split(parm, "/", << >>), LAMBDA q : emptyok \/ q # << >>)

isnumeric(s) == s # << >> /\ \A i \in 1..Len(s) : isdigit(s[i])

\* s.count(c) for a character c
count(s, c) == Cardinality({i \in 1..Len(s) : s[i] = c})

\* s.find(c) for a character c
find(s, c) ==
    IF c \in Range(s)
    THEN (CHOOSE i \in 1..Len(s) : s[i] = c /\ \A j \in 1..(i - 1) : s[j] # c) - 1
    ELSE -1

\* badChr(chrs, s) raises ValueError
badChr(chrs, s) == \E i \in 1..Len(s) : s[i] \in chrs

BadInFilter == {"<", ">", "|", "\"", ",", "\\", ";", ":", "/"}
BadInReplacement == {"<", ">", "|", "\"", ",", "\\", ";"}

\* Variant: adjacent stars are not looked for.
adjacentStars_never(filArg) == FALSE

\* filArg.find('**') >= 0
adjacentStars(filArg) ==
    \E i \in 1..(Len(filArg) - 1) : filArg[i] = "*" /\ filArg[i + 1] = "*"

\* How a step of main ends: "" (it goes on), "exit" (exit(1)) or "raise"
\* (an exception that nothing catches).

\* One extension clause, for the floater number idx (from 1): the group it
\* puts in the regular expression, the semantic rule it leaves in filArgx
\* (none: << >>), whether re.compile will refuse the group, and how the
\* clause ends.
filterClauseEnd(grp, sem, end) ==
    [grp |-> grp, sem |-> sem, bad |-> grp.max >= 0 /\ grp.min > grp.max, end |-> end]

\* The semantic filter text of a clause
filterSemantic(grp, text, rang, idx) ==
    IF Len(rang) # 2 THEN filterClauseEnd(grp, << >>, "exit")
    ELSE IF rang[1] = << >> THEN filterClauseEnd(grp, << >>, "raise")
    ELSE IF rang[1][1] = "#"
    THEN IF PyInt(Tail(rang[1])).ok /\ PyInt(rang[2]).ok
         THEN filterClauseEnd(grp, <<[idx |-> idx, kind |-> FX_NRANGE,
                                      lo |-> PyInt(Tail(rang[1])).v,
                                      hi |-> PyInt(rang[2]).v]>>, "")
         ELSE filterClauseEnd(grp, << >>, "exit")
    ELSE filterClauseEnd(grp, <<[idx |-> idx, kind |-> FX_ARANGE,
                                 lo |-> rang[1], hi |-> rang[2]]>>, "")

\* The clause split on ',' into rule, with the group grp and the index fidx
\* of its semantic filter
filterFields(rule, grp, fidx, idx) ==
    IF fidx >= Len(rule) THEN filterClauseEnd(grp, << >>, "")
    ELSE filterSemantic(grp, rule[fidx + 1], split(rule[fidx + 1], "-", << >>), idx)

filterRule(rule, idx) ==
    IF rule = << << >> >> THEN filterFields(rule, Grp(1, 1, FALSE, FALSE), 2, idx)
    ELSE IF isnumeric(rule[1])
    THEN IF Len(rule) > 1 /\ isnumeric(rule[2])
         THEN filterFields(rule, Grp(ParseInt(rule[1]), ParseInt(rule[2]), FALSE, FALSE),
                           2, idx)
         ELSE IF rule[1] = <<"0">>
         THEN filterFields(rule, Grp(0, -1, TRUE, FALSE), 1, idx)
         ELSE filterFields(rule, Grp(ParseInt(rule[1]), ParseInt(rule[1]), FALSE, FALSE),
                           1, idx)
    ELSE filterFields(rule, Grp(0, -1, TRUE, FALSE), 0, idx)

filterClause(clause, idx) == filterRule(split(clause, ",", << >>), idx)

\* The loop of main over the characters of filArg, the clauses of filArgx
\* being taken one after the other by the '?' of the filter.  st holds the
\* elements of the regular expression, the semantic rules, maxFloat,
\* whether re.compile will refuse the expression, and how the loop ends.
RECURSIVE filterLoop(_, _, _)
filterAfterClause(rest, clauses, st, r) ==
    filterLoop(rest, clauses,
               [st EXCEPT !.filter = Append(@, r.grp), !.filArgx = @ \o r.sem,
                          !.maxFloat = @ + 1, !.bad = @ \/ r.bad, !.end = r.end])

filterLoop(filArg, clauses, st) ==
    IF filArg = << >> \/ st.end # "" THEN st
    ELSE IF filArg[1] = "*"
    THEN filterLoop(Tail(filArg), clauses,
                    [st EXCEPT !.filter = Append(@, Grp(0, -1, TRUE, FALSE)),
                               !.maxFloat = @ + 1])
    ELSE IF filArg[1] = "?"
    THEN IF clauses = << >>
         THEN filterLoop(Tail(filArg), clauses,
                         [st EXCEPT !.filter = Append(@, Grp(1, 1, FALSE, FALSE)),
                                    !.maxFloat = @ + 1])
         ELSE filterAfterClause(Tail(filArg), Tail(clauses), st,
                                filterClause(clauses[1], st.maxFloat + 2))
    ELSE filterLoop(Tail(filArg), clauses,
                    [st EXCEPT !.filter = Append(@, IF filArg[1] = "$" THEN Eol
                                                    ELSE Lit(filArg[1]))])

\* The filter argument after the checks: the special endings, the loop,
\* the addition for '*.' and re.compile
mainFilterLoop(filArg, clauses) ==
    LET n == Len(filArg)
        rootOnly == n >= 2 /\ filArg[n - 1] = "*" /\ filArg[n] = "."
    IN  filterLoop(IF rootOnly THEN SubSeq(filArg, 1, n - 2)
                   ELSE IF filArg[n] = "." THEN SubSeq(filArg, 1, n - 1)
                   ELSE filArg,
                   clauses,
                   [filter |-> << >>, filArgx |-> << >>,
                    maxFloat |-> IF rootOnly THEN 0 ELSE -1,
                    fadd |-> IF rootOnly THEN <<Grp(0, -1, FALSE, TRUE)>> ELSE << >>,
                    noDotName |-> n >= 2 /\ filArg[1] = "*" /\ filArg[2] = ".",
                    bad |-> FALSE, end |-> ""])

mainFilterDone(st) ==
    IF st.end # "" THEN st
    ELSE [st EXCEPT !.filter = @ \o st.fadd, !.end = IF st.bad THEN "raise" ELSE ""]

\* The filter argument, from sys.argv[1] and sys.argv[2] to re.compile
mainFilter(filArg, filArgx, hasx, aRep) ==
    IF hasx /\ count(filArg, "?") < Len(filArgx) THEN [end |-> "exit"]
    ELSE IF badChr(BadInFilter, filArg) \/ badChr(BadInReplacement, aRep)
    THEN [end |-> "exit"]
    ELSE IF adjacentStars(filArg) THEN [end |-> "exit"]
    ELSE IF filArg = << >> THEN [end |-> "raise"]          \* filArg[-1]
    ELSE mainFilterDone(mainFilterLoop(filArg, filArgx))

\* The option -O after the filter: no index beyond maxFloat, and the
\* indices that are not given are appended
RECURSIVE orderLoop(_, _, _, _)
orderLoop(idx, maxFloat, oOpt, missing) ==
    IF idx > maxFloat \/ missing < 0 THEN oOpt
    ELSE IF idx \in Range(oOpt) THEN orderLoop(idx + 1, maxFloat, oOpt, missing)
    ELSE orderLoop(idx + 1, maxFloat, Append(oOpt, idx), missing - 1)

mainOrder(oOpt, maxFloat) ==
    IF \E i \in 1..Len(oOpt) : oOpt[i] > maxFloat THEN [end |-> "exit", oOpt |-> oOpt]
    ELSE IF Len(oOpt) = 0 THEN [end |-> "", oOpt |-> oOpt]
    ELSE [end |-> "", oOpt |-> orderLoop(0, maxFloat, oOpt, maxFloat + 1 - Len(oOpt))]

\* int(s, base) for base 2, 10 and 16
HexDigits == Digits \o <<"a", "b", "c", "d", "e", "f">>

RECURSIVE IntBase(_, _)
IntBase(s, base) ==
    IF s = << >> THEN 0
    ELSE base * IntBase(SubSeq(s, 1, Len(s) - 1), base)
         + (IndexOf(HexDigits, lowerChr(Last(s))) - 1)

IsBase(s, base) ==
    /\ s # << >>
    /\ \A i \in 1..Len(s) : /\ lowerChr(s[i]) \in Range(HexDigits)
                            /\ IndexOf(HexDigits, lowerChr(s[i])) <= base

\* scanint(str) for a string that begins with a digit, or with '-' and a
\* digit: decimal, 0x hexadecimal, or binary after a leading 0.  ok is
\* FALSE when int raises ValueError.
scanintAbs(v) ==
    IF v[1] # "0" THEN [ok |-> IsBase(v, 10), v |-> IF IsBase(v, 10) THEN IntBase(v, 10) ELSE 0]
    ELSE IF Len(v) > 1 /\ upperChr(v[2]) = "X"
    THEN [ok |-> IsBase(SubSeq(v, 3, Len(v)), 16),
          v |-> IF IsBase(SubSeq(v, 3, Len(v)), 16) THEN IntBase(SubSeq(v, 3, Len(v)), 16)
                ELSE 0]
    ELSE [ok |-> IsBase(v, 2), v |-> IF IsBase(v, 2) THEN IntBase(v, 2) ELSE 0]

scanint(str) ==
    IF str[1] = "-"
    THEN [ok |-> scanintAbs(Tail(str)).ok, v |-> -scanintAbs(Tail(str)).v]
    ELSE scanintAbs(str)

\* repRules: the replacement variable and the default parameters of a rule
repRules(letter) ==
    IF letter = sliceRule THEN <<rvRule, IntV(2), IntV(2), IntV(0)>>
    ELSE IF letter = bumpRule THEN <<rvRule, IntV(1), IntV(0)>>
    ELSE <<rvAdd, IntV(0), IntV(1), IntV(1), IntV(0), IntV(0)>>

\* The parameter number i of the rule argument split into wlist: the
\* default, an int or the string itself; end as for a step of main.
prepParm(wlist, defRule, i) ==
    IF i > Len(wlist) - 1 \/ wlist[i + 1] = << >>
    THEN [end |-> "", p |-> defRule[i + 1]]
    ELSE IF isdigit(wlist[i + 1][1])
    THEN [end |-> IF scanint(wlist[i + 1]).ok THEN "" ELSE "exit",
          p |-> IntV(scanint(wlist[i + 1]).v)]
    ELSE IF wlist[i + 1][1] = "-"
    THEN IF Len(wlist[i + 1]) = 1 THEN [end |-> "raise", p |-> IntV(0)]   \* v[1]
         ELSE IF isdigit(wlist[i + 1][2])
         THEN [end |-> IF scanint(wlist[i + 1]).ok THEN "" ELSE "exit",
               p |-> IntV(scanint(wlist[i + 1]).v)]
         ELSE [end |-> "", p |-> StrV(wlist[i + 1])]
    ELSE [end |-> "", p |-> StrV(wlist[i + 1])]

\* The working list of a rule as the record that native reads.  The S and
\* B rules of the model's command lines have numbers for parameters, and so
\* have the step and the width of its I rules.
prepRecord(letter, ps) ==
    IF \E i \in 1..Len(ps) : ps[i].end # ""
    THEN [end |-> ps[CHOOSE i \in 1..Len(ps) :
                      ps[i].end # "" /\ \A j \in 1..(i - 1) : ps[j].end = ""].end,
          rule |-> << >>]
    ELSE IF letter = sliceRule
    THEN [end |-> "", rule |-> SRule(ps[1].p.v, ps[2].p.v, ps[3].p.v)]
    ELSE IF letter = bumpRule
    THEN [end |-> "", rule |-> BRule(ps[1].p.v, ps[2].p.v)]
    ELSE IF ps[4].p.t = "int" /\ ps[4].p.v # 0
    THEN [end |-> "raise", rule |-> << >>]                \* bitmapChars of an int
    ELSE [end |-> "", rule |-> prepRuleI(ps[1].p, ps[2].p.v, ps[3].p.v, ps[4].p)]

\* prepRule(arg, defRule, rvType) for an argument whose letter is known
prepRule(arg, rvType) ==
    IF Len(split(arg, "/", << >>)[1]) > 1 \/ repRules(arg[1])[1] # rvType
    THEN [end |-> "exit", rule |-> << >>]
    ELSE prepRecord(arg[1],
                    [i \in 1..(Len(repRules(arg[1])) - 1) |->
                        prepParm(split(arg, "/", << >>), repRules(arg[1]), i)])

\* The loop over the options of the command line: -A, -O, -F and -T; a
\* letter that main does not know ends the run.  (The command lines of the
\* model have no option U, X, S, R, E or P.)  sortDir is the name that -TS
\* assigns; getdir reads sortdir, which is another name.
OptInit == [aOpt |-> A_ASK, oOpt |-> << >>, filterCase |-> TRUE, opdirs |-> 0,
            fOpt |-> << >>, sortDir |-> FALSE, useInput |-> FALSE, end |-> ""]

\* -F: C, D, d or a name pattern to exclude
RECURSIVE optionF(_, _)
optionF(pl, st) ==
    IF pl = << >> THEN st
    ELSE optionF(Tail(pl),
                 IF pl[1] = <<"C">> THEN [st EXCEPT !.filterCase = FALSE]
                 ELSE IF pl[1] = <<"D">> THEN [st EXCEPT !.opdirs = 2]
                 ELSE IF pl[1] = <<"d">> THEN [st EXCEPT !.opdirs = 1]
                 ELSE [st EXCEPT !.fOpt = Append(@, pl[1])])

\* -O: the elements between the commas, each through int()
optionO(es, st) ==
    IF \E i \in 1..Len(es) : ~PyInt(es[i]).ok THEN [st EXCEPT !.end = "raise"]
    ELSE [st EXCEPT !.oOpt = [i \in 1..Len(es) |-> PyInt(es[i]).v]]

\* -T: the letters after it, S and I; any other letter is passed over
optionT(ps, st) ==
    [st EXCEPT !.sortDir = @ \/ "S" \in Range(ps),
               !.useInput = @ \/ "I" \in Range(ps)]

mainOption(arg, st) ==
    IF Len(arg) < 2 THEN [st EXCEPT !.end = "exit"]
    ELSE IF arg[2] = "A"
    THEN IF Len(arg) < 3 \/ upperChr(arg[3]) \notin {"A", "R", "S"}
         THEN [st EXCEPT !.end = "exit"]
         ELSE [st EXCEPT !.aOpt = find(<<"A", "R", "S">>, upperChr(arg[3]))]
    ELSE IF arg[2] = "O"
    THEN IF Len(arg) < 3 THEN [st EXCEPT !.end = "exit"]
         ELSE optionO(split(SubSeq(arg, 3, Len(arg)), ",", << >>), st)
    ELSE IF arg[2] = "F" THEN optionF(parmList(SubSeq(arg, 3, Len(arg)), FALSE), st)
    ELSE IF arg[2] = "T" THEN optionT(SubSeq(arg, 3, Len(arg)), st)
    ELSE [st EXCEPT !.end = "exit"]

RECURSIVE mainOptions(_, _)
mainOptions(args, st) ==
    IF args = << >> \/ st.end # "" THEN st
    ELSE IF args[1] = << >> THEN [st EXCEPT !.end = "raise"]        \* arg[0]
    ELSE IF args[1][1] = "-" THEN mainOptions(Tail(args), mainOption(args[1], st))
    ELSE mainOptions(Tail(args), st)

\* The loop over the rules of the command line, rulevars being the rule
\* variables of the replacement
RECURSIVE mainRules(_, _, _)
mainRulesNext(args, rulevars, ruleList, r) ==
    IF r.end # "" THEN [end |-> r.end, rules |-> ruleList]
    ELSE mainRules(Tail(args), rulevars, Append(ruleList, r.rule))

mainRules(args, rulevars, ruleList) ==
    IF args = << >>
    THEN [end |-> IF Len(ruleList) < Len(rulevars) THEN "exit" ELSE "", rules |-> ruleList]
    ELSE IF args[1][1] = "-" THEN mainRules(Tail(args), rulevars, ruleList)
    ELSE IF Len(rulevars) <= Len(ruleList) THEN [end |-> "exit", rules |-> ruleList]
    ELSE IF args[1][1] \notin {sliceRule, bumpRule, incRule}
    THEN [end |-> "exit", rules |-> ruleList]                        \* KeyError
    ELSE mainRulesNext(args, rulevars, ruleList,
                       prepRule(args[1], rulevars[Len(ruleList) + 1]))

\* main, from the options to the rules: how it ends, and the globals it
\* has set when it goes on to procDir
MainEnd(end) == [end |-> end, cmd |-> << >>, aOpt |-> A_ASK]

mainAfterRules(opts, f, o, lrep, r) ==
    IF r.end # "" THEN MainEnd(r.end)
    ELSE [end |-> "", aOpt |-> opts.aOpt,
          cmd |-> [filter |-> f.filter, noDotName |-> f.noDotName,
                   maxFloat |-> f.maxFloat, lrep |-> lrep,
                   maxConsumer |-> maxConsumerOf(lrep), rules |-> r.rules,
                   irules |-> {i \in 1..Len(r.rules) : r.rules[i].id = incRule},
                   sOpt |-> << >>, fOpt |-> opts.fOpt, opdirs |-> opts.opdirs,
                   filterCase |-> opts.filterCase, oOpt |-> o.oOpt,
                   filArgx |-> f.filArgx,
                   caStop |-> DefaultOpts.caStop, caContinue |-> DefaultOpts.caContinue,
                   caPun |-> DefaultOpts.caPun, caPunPos |-> DefaultOpts.caPunPos,
                   caMerge |-> DefaultOpts.caMerge, caStart |-> DefaultOpts.caStart,
                   rDepth |-> 0, rInc |-> FALSE, rDirs |-> << >>]]

mainAfterOrder(argv, opts, f, o, lrep) ==
    IF o.end # "" THEN MainEnd(o.end)
    ELSE mainAfterRules(opts, f, o, lrep,
                        mainRules(SubSeq(argv, 3, Len(argv)),
                                  SelectSeq(lrep, LAMBDA v : v = rvRule \/ v = rvAdd),
                                  << >>))

mainAfterFilter(argv, opts, f) ==
    IF f.end # "" THEN MainEnd(f.end)
    ELSE mainAfterOrder(argv, opts, f, mainOrder(opts.oOpt, f.maxFloat),
                        splitRep(argv[2], << >>))

mainAfterOptions(argv, opts, idx) ==
    IF opts.end # "" THEN MainEnd(opts.end)
    ELSE IF Len(argv) + 1 < 3 THEN MainEnd("exit")
    ELSE mainAfterFilter(argv, opts,
                         mainFilter(IF idx = -1 THEN argv[1] ELSE SubSeq(argv[1], 1, idx),
                                    IF idx = -1 THEN << >>
                                    ELSE parmList(SubSeq(argv[1], idx + 2, Len(argv[1])),
                                                  TRUE),
                                    idx # -1, argv[2]))

\* argv stands for sys.argv[1:]
mainArgs(argv) ==
    mainAfterOptions(argv, mainOptions(argv, OptInit),
                     IF argv = << >> THEN -1 ELSE find(argv[1], "/"))

-----------------------------------------------------------------------------
(* The command line.  One invocation of the program on a directory: main   *)
(* reads the arguments, then procDir runs, or the process ends at once.    *)

\* Length of the longest file name of the filter command lines
MaxName == 2

\* Filters without clauses over a literal, the end-of-line sign of regular
\* expressions, the dot and the two wildcards, on one file; the whole
\* name is kept after the letter N.
FilterFrames ==
    { [argv |-> <<f, <<"N", "*">>, <<"-", "A", "R">>>>,
       tree |-> <<Top, Fil(1, n)>>] :
      f \in Strings({"a", "$", ".", "*", "?"}, MaxLen),
      n \in Strings({"a", "$", "."}, MaxName) \ DotNames }

\* The case of the letters, with and without -FC
CaseFrames ==
    { [argv |-> <<f, <<"N", "*">>>> \o o,
       tree |-> <<Top, Fil(1, n)>>] :
      f \in {<<"a", "*">>, <<"A", "?">>, <<"*", "a">>, <<"A">>},
      n \in {<<"A">>, <<"a">>, <<"a", "A">>, <<"A", "b">>},
      o \in {<<<<"-", "A", "R">>>>, <<<<"-", "F", "C">>, <<"-", "A", "R">>>>,
             <<<<"-", "A", "S">>, <<"-", "F", "/", "a", "?", "/", "C">>>>, << >>} }

\* Floater orders (renet.py, test58, test59): filters of three, two and one
\* floaters, orders inside and outside the indices, given twice, negative,
\* not a number
OrderFrames ==
    { [argv |-> <<f, r>> \o o \o a,
       tree |-> <<Top, Fil(1, <<"a", "_", "b", "_", "c">>), Fil(1, <<"a", "b">>)>>] :
      f \in {<<"*", "_", "*", "_", "*">>, <<"a", "*">>, <<"a", "?", "_", "*">>, <<"*", ".">>},
      r \in {<<"*", "-", "*", "-", "*">>, <<"N", "*">>},
      o \in {<< >>, <<<<"-", "O", "1">>>>, <<<<"-", "O", "1", ",", "1">>>>, <<<<"-", "O", "-", "1">>>>, <<<<"-", "O", "3">>>>, <<<<"-", "O", "2", ",", "0">>>>, <<<<"-", "O", "0", ",", "1", ",", "2">>>>, <<<<"-", "O", "-", "4">>>>, <<<<"-", "O", "x">>>>, <<<<"-", "O">>>>, <<<<"-", "O", "0">>>>, <<<<"-", "O", "2", ",", "1", ",", "0", ",", "1">>>>},
      a \in {<<<<"-", "A", "R">>>>, <<<<"-", "A", "r">>>>, <<<<"-", "A">>>>, <<<<"-", "Q">>>>} }

\* Clauses and rules: filters with and without clauses, with adjacent
\* stars, replacements with zero to two rule variables, rule arguments of
\* every letter and one that is no rule
RuleFrames ==
    { [argv |-> <<f, r>> \o rl \o <<<<"-", "A", "R">>>>,
       tree |-> <<Top, Fil(1, <<"a", "1">>), Fil(1, <<"a", "b">>), Fil(1, <<"a", "b", "c">>)>>] :
      f \in {<<"a", "?">>, <<"a", "*">>, <<"a", "*", "*">>, <<"*", "*">>, <<"a", "?", "/", "1", "/", "2">>, <<"a", "?", "/", "2">>, <<"a", "?", "/">>, <<"a", "?", "/", "x">>, <<"a", "?", "/", "a", "-", "c">>, <<"a", "?", "/", "#", "1", "-", "5">>, <<"a", "?", "/", "1", ",", "2">>, <<"a", "?", "/", "2", ",", "1">>, <<"a", "?", "/", "0">>, <<"a", "*", "/", "1">>, <<"a", "?", "*", "/", "0", ",", "1", ",", "a", "-", "b">>, <<"a", "?", "/", "a", "-">>, <<"a", "?", "/", "1", "-", "2">>},
      r \in {<<"N", "*">>, <<"N", "?">>, <<"N", "?", ":">>, <<"N", ":", "?">>, <<"x", "?", "?">>},
      rl \in {<< >>, <<<<"S">>>>, <<<<"B">>>>, <<<<"I">>>>, <<<<"X">>>>, <<<<"S", "/", "1", "/", "1">>>>, <<<<"S">>, <<"I">>>>, <<<<"I">>, <<"S">>>>, <<<<"S">>, <<"S">>>>, <<<<"B", "/", "1", "/", "0", "x", "1", "1">>>>, <<<<"I", "/", "5", "/", "1", "/", "2", "/", "R">>>>, <<<<"S", "S", "/", "1">>>>, <<<<"I", "/", "1", "a">>>>, <<<<"S", "/", "1">>, <<"X">>>>, <<<<"I", "/", "/", "2", "/", "1", "/", "1">>>>, <<<<"B", "/", "-", "1", "/", "0", "1", "0">>>>} }

\* The test options: names that the two sorts put in different orders,
\* with and without a counter, with and without -TS
SortFrames ==
    { [argv |-> rr \o <<<<"-", "A", "R">>>> \o t,
       tree |-> <<Top, Fil(1, <<"B">>), Fil(1, <<"a">>), Fil(1, <<"C">>)>>] :
      rr \in {<<<<"*">>, <<"x", "*">>>>, <<<<"*">>, <<"x", ":">>, <<"I">>>>},
      t \in {<< >>, <<<<"-", "T", "S">>>>, <<<<"-", "T", "I", "S">>>>, <<<<"-", "T", "I">>>>, <<<<"-", "T">>>>} }

MainFrames == FilterFrames \cup CaseFrames \cup OrderFrames \cup RuleFrames
              \cup SortFrames

InitMain ==
    /\ \E fr \in MainFrames, w \in BOOLEAN :
         /\ ValidTree(fr.tree, w)
         /\ Windows = w /\ fs = fr.tree
         /\ stack = <<[fn |-> "main", argv |-> fr.argv]>>
         /\ acts = [d \in Dirs(fr.tree) |-> NoFile]
         /\ hist = [histInit(fr.tree) EXCEPT !.op = "main"]
    /\ cmd = NativeCmd(<<"*">>, <<"*">>, << >>, DefaultOpts)
    /\ actr = NoFile
    /\ rules = << >> /\ newList = << >> /\ oldList = << >> /\ dirlist = << >>
    /\ pos = 0 /\ pc = "main" /\ cwd = RootDir /\ rVisit = << >>
    /\ curDepth = 0 /\ ret = 0 /\ aOpt = A_ASK /\ undoList = << >> /\ nInv = 1

\* main up to the call of procDir, or to the end of the process
MainParse ==
    /\ pc = "main"
    /\ \E r \in {mainArgs(stack[1].argv)} :
         IF r.end = "exit"
         THEN /\ pc' = "exit1" /\ ret' = 1
              /\ UNCHANGED <<cmd, rules, aOpt, hist>>
         ELSE IF r.end = "raise"
         THEN /\ pc' = "raise" /\ hist' = [hist EXCEPT !.crashed = TRUE]
              /\ UNCHANGED <<cmd, rules, aOpt, ret>>
         ELSE /\ pc' = "procDir"
              /\ cmd' = r.cmd /\ rules' = r.cmd.rules /\ aOpt' = r.aOpt
              /\ UNCHANGED <<ret, hist>>
    /\ UNCHANGED <<Windows, fs, acts, actr, newList, oldList, dirlist, pos, cwd,
                   stack, rVisit, curDepth, undoList, nInv>>

\* exit(1)
MainFail ==
    /\ pc = "exit1"
    /\ Exit
    /\ hist' = histExit(hist)
    /\ UNCHANGED <<Windows, cmd, fs, acts, actr, nInv>>

NextMain ==
    \/ MainParse \/ MainFail \/ ProcDirStart \/ ProcDirLoop \/ ProcDirDecide
    \/ ExecWrite \/ ExecRename \/ ExecDone \/ MainExit \/ Raise

SpecMain == InitMain /\ [][NextMain]_vars

\* The command line of the running process, and the part of its first
\* argument that precedes the first '/'
argvOf == stack[1].argv

filArgOf(argv) ==
    IF "/" \in Range(argv[1]) THEN SubSeq(argv[1], 1, find(argv[1], "/")) ELSE argv[1]

\* main is running, or has gone on to procDir
mainRunning == hist.op = "main" /\ stack # << >>
mainPassed == mainRunning /\ pc \in {"procDir", "loop", "exec", "rename", "ret"}

\* The arguments that are rules, and the lists of numbers of the options -O
ruleArgsOf(argv) == SelectSeq(SubSeq(argv, 3, Len(argv)), LAMBDA a : a[1] # "-")

ordersOf(argv) ==
    { split(SubSeq(argv[i], 3, Len(argv[i])), ",", << >>) :
      i \in {j \in 1..Len(argv) : /\ Len(argv[j]) >= 3
                                  /\ argv[j][1] = "-" /\ argv[j][2] = "O"} }

-----------------------------------------------------------------------------
\* C12: a filter with two adjacent stars, more extension clauses than
\* question marks in the filter, an order index greater than the index of
\* the last floater, a rule argument whose letter is none of S, B and I, or
\* a number of rule arguments that differs from the number of rule
\* variables of the replacement ends the process in main with a nonzero
\* status: procDir is never called, no file is renamed and no log is
\* written.
C12_Stars(argv) ==
    \E i \in 1..(Len(filArgOf(argv)) - 1) :
        filArgOf(argv)[i] = "*" /\ filArgOf(argv)[i + 1] = "*"

C12_Clauses(argv) == count(argv[1], "/") > count(filArgOf(argv), "?")

C12_Order(argv) ==
    \E o \in ordersOf(argv) : \E i \in 1..Len(o) :
        /\ PyInt(o[i]).ok
        /\ PyInt(o[i]).v > count(filArgOf(argv), "*") + count(filArgOf(argv), "?") - 1

C12_Letter(argv) ==
    \E i \in 1..Len(ruleArgsOf(argv)) : ruleArgsOf(argv)[i][1] \notin {"S", "B", "I"}

C12_Count(argv) ==
    Len(ruleArgsOf(argv)) # count(argv[2], "?") + count(argv[2], ":")

C12_Malformed(argv) ==
    \/ C12_Stars(argv) \/ C12_Clauses(argv) \/ C12_Order(argv)
    \/ C12_Letter(argv) \/ C12_Count(argv)

C12_MalformedExits ==
    (mainRunning /\ C12_Malformed(argvOf)) =>
        /\ pc \in {"main", "exit1", "raise"}
        /\ pc = "exit1" => ret = 1
        /\ pc = "raise" => hist.crashed
        /\ fs = hist.pre /\ ~hist.ran
        /\ actr = NoFile /\ \A d \in DOMAIN acts : acts[d] = NoFile

\* main has ended with exit(1) on a filter with adjacent stars whose other
\* arguments are well formed
C12_Witness ==
    /\ mainRunning /\ pc = "exit1" /\ ret = 1
    /\ C12_Stars(argvOf)
    /\ ~C12_Clauses(argvOf) /\ ~C12_Order(argvOf)
    /\ ~C12_Letter(argvOf) /\ ~C12_Count(argvOf)

-----------------------------------------------------------------------------
\* C19: for a filter without extension clauses a name is selected if and
\* only if the whole name matches the filter read as verbatim characters,
\* with * for any run of characters and ? for exactly one character, and a
\* name that begins with a dot is rejected exactly when the filter begins
\* with "*.".  The reading below takes the case of the letters as -FC says,
\* and the two endings of a filter as main does: "*." for a last run
\* without a dot, a bare last dot dropped.
RECURSIVE C19_Glob(_, _)
C19_Glob(pat, s) ==
    IF pat = << >> THEN s = << >>
    ELSE IF pat[1] = "*"
    THEN \E k \in 0..Len(s) : C19_Glob(Tail(pat), SubSeq(s, k + 1, Len(s)))
    ELSE /\ s # << >>
         /\ pat[1] = "?" \/ ChrEq(pat[1], s[1])
         /\ C19_Glob(Tail(pat), Tail(s))

C19_Reading(filArg, name) ==
    /\ IF Len(filArg) >= 2 /\ SubSeq(filArg, Len(filArg) - 1, Len(filArg)) = <<"*", ".">>
       THEN \E k \in 0..Len(name) :
               /\ C19_Glob(SubSeq(filArg, 1, Len(filArg) - 2), SubSeq(name, 1, k))
               /\ "." \notin Range(SubSeq(name, k + 1, Len(name)))
       ELSE IF Last(filArg) = "."
       THEN C19_Glob(SubSeq(filArg, 1, Len(filArg) - 1), name)
       ELSE C19_Glob(filArg, name)
    /\ ~(/\ name[1] = "."
         /\ Len(filArg) >= 2 /\ SubSeq(filArg, 1, 2) = <<"*", ".">>)

\* A command line of a filter without clauses, the replacement N*, no rule
\* and no option but -A, on a directory of one file: the file is selected
\* exactly when the pass accepts a new name for it.
C19_Plain(argv) ==
    /\ "/" \notin Range(argv[1])
    /\ argv[2] = <<"N", "*">>
    /\ \A i \in 3..Len(argv) : Len(argv[i]) = 3 /\ SubSeq(argv[i], 1, 2) = <<"-", "A">>
    /\ Len(fs) = 2

C19_FilterSelects ==
    (mainRunning /\ pc = "loop" /\ pos > Len(dirlist) /\ C19_Plain(argvOf)) =>
        \A i \in 1..Len(dirlist) :
            (\E j \in 1..Len(hist.accepted) : hist.accepted[j][1] = dirlist[i])
            <=> C19_Reading(argvOf[1], dirlist[i])

-----------------------------------------------------------------------------
\* C20: an explicit order of the floaters is accepted only if each of its
\* numbers is the index of a floater, and main completes it with the
\* indices it does not name, in ascending order: the order that native
\* uses is a permutation of all the indices of the floaters that begins
\* with the list given.
C20_Given(argv) ==
    CHOOSE o \in ordersOf(argv) : TRUE

C20_OrderIsPermutation ==
    (mainPassed /\ ordersOf(argvOf) # {}) =>
        /\ \A i \in 1..Len(C20_Given(argvOf)) :
               PyInt(C20_Given(argvOf)[i]).v \in 0..cmd.maxFloat
        /\ Len(cmd.oOpt) = cmd.maxFloat + 1
        /\ Range(cmd.oOpt) = 0..cmd.maxFloat
        /\ \A i \in 1..Len(C20_Given(argvOf)) :
               i <= Len(cmd.oOpt) /\ cmd.oOpt[i] = PyInt(C20_Given(argvOf)[i]).v
        /\ \A i, j \in (Len(C20_Given(argvOf)) + 1)..Len(cmd.oOpt) :
               i < j => cmd.oOpt[i] < cmd.oOpt[j]

-----------------------------------------------------------------------------
\* C21: when an I rule or the numbering of collisions is in effect, the
\* new name of each file does not depend on the order in which the system
\* lists the directory: two runs on the same content of a directory give
\* the same pairs (old, new).  The first of the two runs has renamed
\* nothing, so that the second one finds the same directory.
C21_TwoRuns ==
    /\ hist.op = "run" /\ hist.prevOp = "run" /\ hist.prevPass.ok
    /\ cmd.rDepth = 0 /\ Len(cmd.sOpt) = 0
    /\ pc = "loop" /\ pos > Len(dirlist)

C21_Numbered(pairs) == \E p \in pairs : p[2] # native(p[1]).newName

C21_OrderIndependent ==
    (/\ C21_TwoRuns
     /\ \/ cmd.irules # {}
        \/ C21_Numbered(Range(hist.accepted) \cup hist.prevPass.pairs))
    => Range(hist.accepted) = hist.prevPass.pairs

-----------------------------------------------------------------------------
\* C22: for a command line that main has accepted, the processing of a
\* candidate name (the filter, the rules S, B and I, the avoidance of
\* collisions) never raises an exception: no run leaves the loop of
\* procDir over the directory by an exception.
C22_NoException ==
    ~(pc = "raise" /\ hist.op = "run" /\ hist.crashed /\ hist.answer = "")

-----------------------------------------------------------------------------
\* A call of native on a name that passes the filter has returned
walkDone == pc = "done" /\ hist.op = "walk" /\ reMatch(cmd.filter, stack[1].old).ok

\* C23: for every candidate name, the rule variable number k of the
\* replacement, counted from the left, is processed with the rule number
\* k, also after a ? that found no floater or took an empty one.
C23_RuleOfVariable ==
    walkDone => \A i \in 1..Len(ret.uses) : ret.uses[i][1] = ret.uses[i][2]

-----------------------------------------------------------------------------
\* C24: when the replacement is walked for a name that passes the filter,
\* the consuming token number j takes the floater number j, except that
\* the last consuming token of the replacement takes all the floaters not
\* yet consumed, joined, and a consuming token reached when no floater is
\* left adds nothing; a copy adds its source as it is, a discard adds
\* nothing, a literal is added in its place.
C24_LastConsumer(lrep) ==
    CHOOSE i \in 0..Len(lrep) :
        /\ i > 0 => lrep[i] \in consumers
        /\ \A k \in (i + 1)..Len(lrep) : lrep[k] \notin consumers

RECURSIVE C24_Walk(_, _, _, _)
C24_Walk(lrep, idx, floaters, j) ==
    IF idx > Len(lrep) THEN << >>
    ELSE IF lrep[idx] \notin consumers
    THEN lrep[idx] \o C24_Walk(lrep, idx + 1, floaters, j)
    ELSE IF j > Len(floaters) THEN C24_Walk(lrep, idx + 1, floaters, j)
    ELSE (IF lrep[idx] # rvCopy THEN << >>
          ELSE IF idx = C24_LastConsumer(lrep)
          THEN Join(SubSeq(floaters, j, Len(floaters)))
          ELSE floaters[j])
         \o C24_Walk(lrep, idx + 1, floaters, j + 1)

\* The example of the patents (C24)
C24_Patent ==
    (pc = "done" /\ stack[1] = patentCall) =>
        ret.newName = <<"h", "a", "p", "0", "1", ".", "t", "i", "f">>

\* C24: the new name that native returns for a replacement of literals,
\* copies and discards is the name of the walk above, in which each
\* consuming token takes the next floater and the last one all that is
\* left; the example of the patents gives hap01.tif.
C24_WalkTakesInOrder ==
    /\ (walkDone /\ stack[1].rules = << >>) =>
           ret.newName = C24_Walk(cmd.lrep, 1, reMatch(cmd.filter, stack[1].old).g, 1)
    /\ C24_Patent

\* The last copy of a replacement has taken two floaters, after a copy that
\* has taken one
C24_Witness ==
    /\ walkDone /\ stack[1].rep = <<"*", "-", "*">>
    /\ stack[1].filter = <<"?", "*", "_", "*">>
    /\ stack[1].old = <<"a", "_", "1">>
    /\ ret.newName = <<"a", "-", "1">>

-----------------------------------------------------------------------------
\* C25: for a string that is empty, or whose last character is neither a
\* digit nor a letter, nextName returns the string with the decimal value
\* of step appended.
C25_PunctuationStep ==
    (/\ nextNameDone
     /\ \/ stack[1].str = << >>
        \/ ~isdigit(Last(stack[1].str)) /\ ~isalpha(Last(stack[1].str)))
    => /\ ret \notin {PyNone, PyError}
       /\ ret = stack[1].str \o FormatInt(0, stack[1].step)

-----------------------------------------------------------------------------
\* C26: the Slice rule never rejects a candidate.  In mode 1 it adds the
\* characters of its source from the place leadCount up to, and without,
\* the place trailCount; a warning is given exactly when the source is
\* shorter than leadCount + trailCount (mode 0), or when leadCount >=
\* trailCount or trailCount is beyond the length of the source (mode 1),
\* and native returns a name all the same.
C26_Substring(src, lead, trail) ==
    [i \in 1..(IF trail > Len(src) THEN Len(src) - lead
               ELSE trail - lead) |-> src[lead + i]]

-----------------------------------------------------------------------------
\* C27: an extension clause of two numbers with "-" between them, m-n,
\* makes its "?" stand for m to n characters and puts no range filter on
\* what these characters are.  Stated for the command line a?/m-n N* of
\* one-digit m and n: a pass accepts a new name for exactly the files whose
\* names are the letter a and then m to n characters.
C27_Clause(argv) ==
    /\ Len(argv[1]) = 6 /\ SubSeq(argv[1], 1, 3) = <<"a", "?", "/">>
    /\ isdigit(argv[1][4]) /\ argv[1][5] = "-" /\ isdigit(argv[1][6])
    /\ argv[2] = <<"N", "*">> /\ ruleArgsOf(argv) = << >>

C27_Width(argv, name) ==
    /\ name # << >> /\ ChrEq(name[1], "a")
    /\ Len(name) - 1 >= ParseInt(<<argv[1][4]>>)
    /\ Len(name) - 1 <= ParseInt(<<argv[1][6]>>)

C27_WidthRange ==
    (mainRunning /\ pc = "loop" /\ pos > Len(dirlist) /\ C27_Clause(argvOf)) =>
        \A i \in 1..Len(dirlist) :
            (\E j \in 1..Len(hist.accepted) : hist.accepted[j][1] = dirlist[i])
            <=> C27_Width(argvOf, dirlist[i])

-----------------------------------------------------------------------------
\* C28: greedyext splits every name into a root and an extension that,
\* put together, are the name again; the extension is empty, or it begins
\* at the first dot that follows a character that is no dot and runs to the
\* end of the name; a name without a dot, and a name of one dot and then no
\* further dot, has an empty extension.
greedyextDone == pc = "done" /\ hist.op = "greedyext"

C28_FirstDot(str) ==
    CHOOSE i \in 2..Len(str) :
        /\ str[i] = "." /\ str[i - 1] # "."
        /\ \A j \in 2..(i - 1) : ~(str[j] = "." /\ str[j - 1] # ".")

C28_RootAndExtension ==
    greedyextDone =>
        LET str == stack[1].str IN
        /\ ret[1] \o ret[2] = str
        /\ ret[2] # << >> =>
              /\ \E i \in 2..Len(str) : str[i] = "." /\ str[i - 1] # "."
              /\ ret[2] = SubSeq(str, C28_FirstDot(str), Len(str))
        /\ ("." \notin Range(str) \/ (str[1] = "." /\ "." \notin Range(Tail(str))))
              => ret[2] = << >>

-----------------------------------------------------------------------------
\* C29: in the execution phase of a directory pass, when the rename of an
\* old name to its new name is about to be made, the old name exists and
\* the new name does not exist or designates the same file, so that no
\* entry is overwritten and the directory has as many entries after the
\* pass as before it.
C29_Entries(tree, d) == Cardinality(Children(tree, d))

C29_RenameIsFree ==
    /\ pc = "rename" =>
          /\ exists(fs, cwd, oldList[pos])
          /\ exists(fs, cwd, newList[pos])
                => samefile(fs, cwd, oldList[pos], newList[pos])
    /\ pc \in {"exec", "rename"} =>
          C29_Entries(fs, cwd) = C29_Entries(hist.pre, cwd)

-----------------------------------------------------------------------------
\* C30: with the test option -TS the names of a directory are processed
\* in sorted order without regard to the case of the letters, also when an
\* Insert-Increment rule is applied, for which the names are otherwise
\* sorted with regard to case.  Stated for Linux, where the option is
\* meant to act.
C30_TestSort(argv) ==
    \E i \in 3..Len(argv) :
        /\ Len(argv[i]) >= 3 /\ argv[i][1] = "-" /\ argv[i][2] = "T"
        /\ "S" \in Range(SubSeq(argv[i], 3, Len(argv[i])))

C30_SortedWithoutCase ==
    (mainRunning /\ ~Windows /\ pc = "loop" /\ C30_TestSort(argvOf)) =>
        \A i, j \in 1..Len(dirlist) :
            i < j => ~StrLess(lower(dirlist[j]), lower(dirlist[i]))

====
